---- MODULE Spec2Model ----
(***************************************************************************)
(* Model of one call of the voice-agent gateway: the agent-side session    *)
(* (src/app/api/websocket.py), the per-turn LLM/TTS pipeline               *)
(* (src/app/streaming/pipeline.py) and the relay's agent-to-PBX pump       *)
(* (src/asterisk/relay.py).  Every coroutine is a process whose steps run  *)
(* from one await to the next; asyncio interleaves the steps.              *)
(***************************************************************************)
EXTENDS Integers, Sequences, FiniteSets, TLC

\* ---------------------------------------------------------------- bounds
MaxTurns == 2          \* turns the handler starts in one call
MaxSentences == 1      \* sentences the policy streams in one turn
MaxMsgs == 3           \* audio_data messages the receiver takes in one call
MaxMsgsRelay == 2      \* the same, in the specification that runs the relay too
MaxChunkFrames == 2    \* 20 ms frames in one synthesized audio chunk

\* ------------------------------------------------- configuration (config.py)
VAD_SILENCE_TIMEOUT_MS == 1500
MIN_SPEECH_DURATION_MS == 300
MIN_BARGEIN_SPEECH_CHUNKS == 3
VAD_CHUNK_SAMPLES == 512
VAD_SAMPLE_RATE == 16000

\* (VAD_CHUNK_SAMPLES / VAD_SAMPLE_RATE) * 1000: exactly 32 ms
MS_PER_VAD_CHUNK == (VAD_CHUNK_SAMPLES * 1000) \div VAD_SAMPLE_RATE

\* int(VAD_SILENCE_TIMEOUT_MS / MS_PER_VAD_CHUNK): int() truncates
SILENT_CHUNKS_FOR_EOS == VAD_SILENCE_TIMEOUT_MS \div MS_PER_VAD_CHUNK

\* int(MIN_SPEECH_DURATION_MS / MS_PER_VAD_CHUNK): int() truncates
MIN_SPEECH_CHUNKS == MIN_SPEECH_DURATION_MS \div MS_PER_VAD_CHUNK

\* ---------------------------------------------------------------- helpers
Min(a, b) == IF a < b THEN a ELSE b

CeilDiv(a, b) == (a + b - 1) \div b

Turns == 1..MaxTurns

\* The sentinel None, on the transcript queue (of strings), on a sentence queue
\* (of sentence numbers) and on the audio queue (of chunks).
None == "None"

SentenceNone == 0

AudioNone == [turn |-> 0, frames |-> 0, sent |-> 0]

\* A frame is classified by the receiver as: "low" (RMS energy below
\* MIN_AUDIO_ENERGY), "speech" or "nonspeech" (the VAD's answer).
FrameKinds == {"speech", "nonspeech", "low"}

\* An audio_data message carries n whole VAD frames of one kind: a single
\* frame, a run of speech just short of the barge-in threshold or as long as
\* the shortest utterance, or a run of silence as long as the silence timeout.
SpeechCounts == {1, MIN_BARGEIN_SPEECH_CHUNKS - 1, MIN_SPEECH_CHUNKS}

SilenceCounts == {1, SILENT_CHUNKS_FOR_EOS}

AudioMsgs ==
    [kind : {"speech"}, n : SpeechCounts]
        \cup [kind : {"nonspeech", "low"}, n : SilenceCounts]

\* Frames of 20 ms in one synthesized chunk.
ChunkFrames == {MaxChunkFrames}

VARIABLES
    \* --- session objects (websocket_vicidial)
    transcript_queue,      \* asyncio.Queue of "" | "utt" | None
    audio_queue,           \* asyncio.Queue of audio chunks [turn, frames]
    interruption_event,    \* asyncio.Event
    agent_is_speaking_event, \* asyncio.Event
    main_pc,               \* websocket_vicidial: "wait" | "gather" | "ended"
    \* --- agent_handler_task
    h_pc,                  \* "get" | "wait" | "gather" | "await_consumer" | "done"
    h_cancel,              \* a cancellation of the handler is pending
    turn,                  \* number of turns started so far
    waiter,                \* interruption_wait_task: "none" | "new" | "waiting" | "done"
    \* --- per-turn tasks and sentence queue
    prod_pc,               \* llm_producer of turn t: "none" | "run" | "cancelling" | "done"
    prod_emitted,          \* sentences the producer of turn t has enqueued
    sentence_queue,        \* sentence queue of turn t
    cons_pc,               \* tts_consumer of turn t: "none" | "top" | "get" | "synth" | "cancelling" | "done"
    \* --- audio_sender_task
    s_pc,                  \* "top" | "clear" | "sleep" | "got" | "done"
    s_chunk,               \* the chunk the sender has dequeued
    s_cancel,
    \* --- audio_receiver_task
    r_pc,                  \* "recv" | "stt" | "done"
    r_cancel,
    r_rest,                \* frames of the current message not yet processed
    msgs_left,             \* audio_data messages the caller side may still send
    is_speaking,
    speech_chunks,
    silent_chunks,
    consecutive_speech_during_agent,
    \* --- relay, agent-to-PBX pump (forward_ai_to_asterisk)
    wire,                  \* messages sent by the agent, not yet received by the relay
    relay_pc,              \* "recv" | "pace"
    relay_cur,             \* the audio_response being paced: [turn, left, stale]
    \* --- history variables (observations only; no action reads them)
    speech_run,            \* consecutive speech frames ending at the last frame
    silence_run,           \* consecutive non-speech frames since the last speech frame of the open utterance
    turn_speech,           \* speech frames processed, flag set, since the current turn started
    last_raise,            \* what held at the last raise of the signal
    last_final,            \* the last finalized utterance
    raised,                \* raised[t]: the signal was raised during turn t
    unanswered,            \* turn of the last raise no interrupt message has been sent for, or 0
    intr_sent,             \* intr_sent[t]: an interrupt message was sent for a raise of turn t
    published,             \* published[t]: chunks the consumer of turn t put on audio_queue
    sent_audio,            \* sent_audio[t]: audio_response messages of turn t sent
    stale_written,         \* frames written to the PBX that the agent had sent before an interrupt
    end_calls,             \* history: calls of agent.end_call made by websocket_vicidial
    raise_count,           \* history: raise_count[t]: times the signal went from clear to set in turn t
    set_at_start,          \* history: set_at_start[t]: the signal was set when turn t was dequeued
    interrupted,           \* history: interrupted[t]: the handler took the interrupted branch in turn t
    \* --- the turn pipeline in detail
    sentence_limit,        \* sentences the policy streams in one turn at most
    tts_model,             \* app.audio.tts.tts_model: "loaded" | None
    cons_cur,              \* tts_consumer of turn t: the sentence being synthesized
    prod_sentinels,        \* history: sentinels the producer of turn t has posted
    taken_order,           \* history: sentences the consumer of turn t dequeued, in order
    sent_order,            \* history: sentences whose audio_response was sent, in order
    \* --- SentenceBuffer (src/app/streaming/buffer.py) and its driver
    seg_stream,            \* the characters the LLM streams in one response
    seg_pos,               \* characters of seg_stream fed so far
    min_words,             \* SentenceBuffer.min_words
    buffer,                \* SentenceBuffer.buffer
    word_count,            \* SentenceBuffer.word_count
    is_final,              \* SentenceBuffer.is_final
    seg_emits,             \* history: the sentences yielded, each with its origin
    \* --- relay: handle_call and forward_asterisk_to_ai (src/asterisk/relay.py)
    hs,                    \* the bytes of the first read from the PBX: [type, len, nbytes]
    call_pc,               \* handle_call: "handshake" | "pumping" | "closed"
    ws,                    \* agent WebSocket: "none" | "open" | "peer_closed" | "closed"
    a2ai_pc,               \* forward_asterisk_to_ai: "off" | "read" | "done"
    ai2a_pc,               \* forward_ai_to_asterisk: "off" | "recv" | "done"
    pbx_left,              \* frames the PBX may still send
    pbx_sock,              \* PBX socket: "open" | "eof" (closed by the PBX) | "closed" (by the relay)
    hangup_sent,           \* the relay has sent {"type": "hangup"} to the agent
    forwarded,             \* history: audio_data messages sent to the agent
    bad_seen,              \* history: a frame of unknown type was read
    \* --- calls, session ids and persistence (relay.py, manager.py, database.py)
    clock,                 \* the relay's wall clock, in whole seconds
    sess_pc,               \* call c: "idle" | "active" | "ended"
    session_id,            \* session_id[c]: the id the relay gave call c
    call_buffers,          \* MedicareAgent._call_buffers, by session id
    checkpoint,            \* patient_info fields set in the LangGraph state, by thread id
    db,                    \* the conversations table, by session id
    saved,                 \* history: saved[c]: commits made by the end_call of call c
    end_cause,             \* history: end_cause[c]: why the session of call c ended
    flush_reason,          \* history: flush_reason[c]: the reason its end_call was given
    \* --- relay: the frames forward_ai_to_asterisk writes (src/asterisk/relay.py)
    pace_pc,               \* "recv" | "sleep" | "next" (the next iteration, with no sleep)
    out_len,               \* len(audio_slin_8k) of the audio_response being written
    out_off,               \* i, the offset of the chunk written last
    pace_left,             \* audio_response messages the agent may still send
    last_frame,            \* the frame written last: [type, hi, lo, payload]
    unslept,               \* history: frames written since the last sleep ended
    \* --- relay: the bytes forward_asterisk_to_ai reads (src/asterisk/relay.py)
    pbx_stream,            \* the frames the PBX sends after the UUID frame
    pbx_bytes,             \* the bytes of pbx_stream the pump has not read yet
    pump_pc,               \* "header" | "audio" | "discard" | "done"
    length,                \* the length field of the header read last
    read_pos,              \* history: bytes of pbx_stream read so far
    ws_sent,               \* history: the messages the pump has sent to the agent
    \* --- one session of MedicareAgent.process_message_streaming (manager.py)
    pms_pc,                \* "idle" | "stream" (the producer iterates the generator)
    conv_turn,             \* calls of process_message_streaming made so far
    user_message,          \* the transcript of the current call (0: the greeting's "")
    buffer_turns,          \* buffer["turns"]
    buffer_patient_info,   \* buffer["patient_info"], the fields set
    graph_messages,        \* "messages" of the LangGraph state of the thread
    graph_patient_info,    \* "patient_info" of the LangGraph state, the fields set
    full_state,            \* full_state["messages"] of the current call
    final_tool,            \* the tool called by the final message of the last call
    turn_log               \* history: what the current call did, in order

sessionVars == <<transcript_queue, audio_queue, interruption_event,
                 agent_is_speaking_event, main_pc>>
handlerVars == <<h_pc, h_cancel, turn, waiter>>
turnVars == <<prod_pc, prod_emitted, sentence_queue, cons_pc>>
senderVars == <<s_pc, s_chunk, s_cancel>>
rxVars == <<r_pc, r_cancel, r_rest, msgs_left, is_speaking, speech_chunks,
            silent_chunks, consecutive_speech_during_agent>>
relayVars == <<wire, relay_pc, relay_cur>>
rxHist == <<speech_run, silence_run, turn_speech, last_raise, last_final>>
turnHist == <<raised, unanswered, intr_sent, published, sent_audio, stale_written>>

sessHist == <<end_calls, raise_count, set_at_start, interrupted>>
pipeVars == <<cons_cur, prod_sentinels, taken_order, sent_order>>
segVars == <<seg_stream, seg_pos, min_words, buffer, word_count, is_final, seg_emits>>
\* What no step of the call's tasks changes.
pbxVars == <<hs, call_pc, ws, a2ai_pc, ai2a_pc, pbx_left, pbx_sock, hangup_sent,
             forwarded, bad_seen>>
dbVars == <<clock, sess_pc, session_id, call_buffers, checkpoint, db, saved, end_cause,
            flush_reason>>
pacerVars == <<pace_pc, out_len, out_off, pace_left, last_frame, unslept>>
\* What the server is started with.
pipeEnv == <<sentence_limit, tts_model>>
pumpVars == <<pbx_stream, pbx_bytes, pump_pc, length, read_pos, ws_sent>>
convVars == <<pms_pc, conv_turn, user_message, buffer_turns, buffer_patient_info,
              graph_messages, graph_patient_info, full_state, final_tool, turn_log>>
sideVars == <<pumpVars, convVars>>
outsideCall == <<pipeEnv, segVars, pbxVars, dbVars, pacerVars, sideVars>>

vars == <<sessionVars, handlerVars, turnVars, senderVars, rxVars, relayVars,
          rxHist, turnHist, sessHist, pipeVars, outsideCall>>

NoRaise == [run |-> 0, armed |-> TRUE, in_turn |-> 0]

NoFinal == [speech |-> 0, silence |-> 0, emitted |-> FALSE, failed |-> FALSE]

\* ------------------------------------------------------- audio_receiver_task
\* The receiver's loop state, gathered in a record so that the frames of one
\* message can be processed in one step (the inner while loop has no await
\* except the transcription).
RxState ==
    [is_speaking |-> is_speaking,
     speech_chunks |-> speech_chunks,
     silent_chunks |-> silent_chunks,
     csda |-> consecutive_speech_during_agent,
     intr |-> interruption_event,
     stt |-> FALSE,
     raised_now |-> FALSE,
     nraised |-> 0,
     speech_run |-> speech_run,
     silence_run |-> silence_run,
     turn_speech |-> turn_speech,
     last_raise |-> last_raise,
     last_final |-> last_final]

\* if agent_is_speaking_event.is_set():   (the barge-in guard)
BargeInArmed_Always(flag) == TRUE

BargeInArmed(flag) == flag

\* process_speech_buffer up to its await: an utterance shorter than min_chunks
\* is ignored, any other is handed to the STT engine.
TooShort(chunks) == chunks < MIN_SPEECH_CHUNKS

\* End of speech: is_speaking = False; process_speech_buffer(...); then the
\* buffer and both counters are reset (after the await when it transcribes).
Finalize(rx) ==
    LET f == [rx EXCEPT !.is_speaking = FALSE,
                        !.last_final = [speech |-> rx.speech_chunks,
                                        silence |-> rx.silence_run,
                                        emitted |-> FALSE, failed |-> FALSE],
                        !.silence_run = 0]
    IN  IF TooShort(rx.speech_chunks)
        THEN [f EXCEPT !.speech_chunks = 0, !.silent_chunks = 0]
        ELSE [f EXCEPT !.stt = TRUE]

\* A silent frame while is_speaking: silent_chunks += 1, end of speech when
\* silent_chunks >= SILENT_CHUNKS_FOR_EOS.
SilenceDuringSpeech(rx) ==
    LET g == [rx EXCEPT !.silent_chunks = rx.silent_chunks + 1]
    IN  IF g.silent_chunks >= SILENT_CHUNKS_FOR_EOS THEN Finalize(g) ELSE g

\* if energy < MIN_AUDIO_ENERGY: ... continue
LowEnergyFrame(rx) == IF rx.is_speaking THEN SilenceDuringSpeech(rx) ELSE rx

\* if is_speech: barge-in counting, then the utterance bookkeeping.
SpeechFrame(rx, flag) ==
    LET armed == BargeInArmed(flag)
        c == IF armed THEN rx.csda + 1 ELSE 0
        ts == IF flag THEN Min(rx.turn_speech + 1, MIN_BARGEIN_SPEECH_CHUNKS)
              ELSE rx.turn_speech
        fire == armed /\ c >= MIN_BARGEIN_SPEECH_CHUNKS /\ ~rx.intr
        sc == IF rx.is_speaking THEN rx.speech_chunks ELSE 0
    IN  [rx EXCEPT !.csda = c,
                   !.turn_speech = ts,
                   !.intr = rx.intr \/ fire,
                   !.raised_now = rx.raised_now \/ fire,
                   !.nraised = IF fire THEN rx.nraised + 1 ELSE rx.nraised,
                   !.last_raise = IF fire
                                  THEN [run |-> rx.speech_run, armed |-> flag,
                                        in_turn |-> ts]
                                  ELSE rx.last_raise,
                   !.is_speaking = TRUE,
                   !.speech_chunks = sc + 1,
                   !.silent_chunks = 0]

\* elif is_speaking: ... else: ...   (VAD says non-speech)
NonSpeechFrame(rx) ==
    IF rx.is_speaking
    THEN SilenceDuringSpeech([rx EXCEPT !.csda = 0])
    ELSE [rx EXCEPT !.csda = 0, !.silent_chunks = 0]

\* One iteration of `while len(pcm16k_buffer) >= VAD_CHUNK_BYTES`.
ProcessChunk(rx, kind, flag) ==
    LET h == [rx EXCEPT
                !.speech_run = IF kind = "speech"
                               THEN Min(rx.speech_run + 1, MIN_BARGEIN_SPEECH_CHUNKS)
                               ELSE 0,
                !.silence_run = IF kind = "speech" \/ ~rx.is_speaking
                                THEN 0 ELSE rx.silence_run + 1]
    IN  CASE kind = "low" -> LowEnergyFrame(h)
          [] kind = "speech" -> SpeechFrame(h, flag)
          [] OTHER -> NonSpeechFrame(h)

\* The frames of one message, up to the await of the transcription:
\* the result is the loop state and the number of frames left.
RECURSIVE ProcessChunks(_, _, _, _)
ProcessChunks(rx, kind, n, flag) ==
    IF n = 0 \/ rx.stt
    THEN [rx |-> rx, rest |-> n]
    ELSE ProcessChunks(ProcessChunk(rx, kind, flag), kind, n - 1, flag)

\* The loop state after a step is written back; a raise wakes the
\* interruption_wait_task if it is already waiting on the event.
ApplyRx(out, kind) ==
    /\ is_speaking' = out.rx.is_speaking
    /\ speech_chunks' = out.rx.speech_chunks
    /\ silent_chunks' = out.rx.silent_chunks
    /\ consecutive_speech_during_agent' = out.rx.csda
    /\ interruption_event' = out.rx.intr
    /\ speech_run' = out.rx.speech_run
    /\ silence_run' = out.rx.silence_run
    /\ turn_speech' = out.rx.turn_speech
    /\ last_raise' = out.rx.last_raise
    /\ waiter' = IF out.rx.raised_now /\ waiter = "waiting" THEN "done" ELSE waiter
    /\ raised' = IF out.rx.raised_now /\ turn \in Turns
                 THEN [raised EXCEPT ![turn] = TRUE] ELSE raised
    /\ unanswered' = IF out.rx.raised_now THEN turn ELSE unanswered
    /\ raise_count' = IF turn \in Turns
                      THEN [raise_count EXCEPT ![turn] = @ + out.rx.nraised]
                      ELSE raise_count
    /\ r_pc' = IF out.rx.stt THEN "stt" ELSE "recv"
    /\ r_rest' = [kind |-> kind, n |-> IF out.rx.stt THEN out.rest ELSE 0]

TranscriptMsg == [type |-> "transcript", turn |-> 0, frames |-> 0, stale |-> FALSE]

InterruptMsg == [type |-> "interrupt", turn |-> 0, frames |-> 0, stale |-> FALSE]

AudioResponse(chunk) ==
    [type |-> "audio_response", turn |-> chunk.turn, frames |-> chunk.frames,
     stale |-> FALSE]

\* data = await websocket.receive_text(): an audio_data message of m.n frames.
RecvAudio(m) ==
    /\ r_pc = "recv"
    /\ ~r_cancel
    /\ msgs_left > 0
    /\ msgs_left' = msgs_left - 1
    /\ LET out == ProcessChunks(RxState, m.kind, m.n, agent_is_speaking_event)
       IN  /\ ApplyRx(out, m.kind)
           /\ last_final' = out.rx.last_final
    /\ UNCHANGED <<transcript_queue, audio_queue, agent_is_speaking_event, main_pc,
                   h_pc, h_cancel, turn, turnVars, senderVars, r_cancel, relayVars,
                   intr_sent, published, sent_audio, stale_written>>
    /\ UNCHANGED <<pipeVars, end_calls, set_at_start, interrupted, outsideCall>>

\* What the Whisper pipeline does with a finalized utterance: it returns a
\* text, returns an empty text, or raises.
SttOutcomes == {"text", "empty", "error"}

\* An exception that leaves transcribe_audio.
SttRaised == "raised"

\* transcribe_audio: the pipeline runs inside try; except Exception: return "".
transcribe_audio_Propagates(outcome) ==
    CASE outcome = "text" -> "utt"
      [] outcome = "empty" -> ""
      [] OTHER -> SttRaised

transcribe_audio(outcome) ==
    CASE outcome = "text" -> "utt"
      [] outcome = "empty" -> ""
      [] OTHER -> ""

\* The transcription returns (process_speech_buffer after its await): a
\* non-empty transcript is sent to the relay and enqueued; then the buffer and
\* the counters are reset and the loop goes on with the frames left.  An
\* exception out of the executor is not caught by process_speech_buffer: it
\* reaches the receiver's except Exception, and the finally block puts None.
RecvSttDone(outcome) ==
    /\ r_pc = "stt"
    /\ ~r_cancel
    /\ LET transcript == transcribe_audio(outcome)
           nonempty == transcript # ""
       IN  IF transcript = SttRaised
           THEN /\ transcript_queue' = Append(transcript_queue, None)
                /\ r_pc' = "done"
                /\ UNCHANGED <<wire, interruption_event, r_rest, is_speaking,
                               speech_chunks, silent_chunks,
                               consecutive_speech_during_agent, rxHist, raised,
                               unanswered, raise_count, waiter>>
           ELSE /\ transcript_queue' = IF nonempty THEN Append(transcript_queue, transcript)
                                       ELSE transcript_queue
                /\ wire' = IF nonempty THEN Append(wire, TranscriptMsg) ELSE wire
                /\ LET reset == [RxState EXCEPT !.speech_chunks = 0, !.silent_chunks = 0]
                       out == ProcessChunks(reset, r_rest.kind, r_rest.n,
                                            agent_is_speaking_event)
                   IN  /\ ApplyRx(out, r_rest.kind)
                       /\ last_final' = IF out.rx.last_final = last_final
                                        THEN [last_final EXCEPT !.emitted = nonempty,
                                                                !.failed = (outcome = "error")]
                                        ELSE out.rx.last_final
    /\ UNCHANGED <<audio_queue, agent_is_speaking_event, main_pc, h_pc, h_cancel, turn,
                   turnVars, senderVars, r_cancel, msgs_left, relay_pc, relay_cur,
                   intr_sent, published, sent_audio, stale_written>>
    /\ UNCHANGED <<pipeVars, end_calls, set_at_start, interrupted, outsideCall>>

\* msg['type'] == 'hangup': put(None); break; then the finally block puts
\* None again.
RecvHangup ==
    /\ r_pc = "recv"
    /\ ~r_cancel
    /\ transcript_queue' = transcript_queue \o <<None, None>>
    /\ r_pc' = "done"
    /\ UNCHANGED <<audio_queue, interruption_event, agent_is_speaking_event, main_pc,
                   handlerVars, turnVars, senderVars, r_cancel, r_rest, msgs_left,
                   is_speaking, speech_chunks, silent_chunks,
                   consecutive_speech_during_agent, relayVars, rxHist, turnHist>>
    /\ UNCHANGED <<pipeVars, sessHist, outsideCall>>

\* WebSocketDisconnect out of receive_text, or the task is cancelled at one of
\* its awaits: the finally block puts None.
RecvAbort ==
    /\ r_pc \in {"recv", "stt"}
    /\ r_cancel \/ r_pc = "recv"
    /\ transcript_queue' = Append(transcript_queue, None)
    /\ r_pc' = "done"
    /\ r_cancel' = FALSE
    /\ UNCHANGED <<audio_queue, interruption_event, agent_is_speaking_event, main_pc,
                   handlerVars, turnVars, senderVars, r_rest, msgs_left,
                   is_speaking, speech_chunks, silent_chunks,
                   consecutive_speech_during_agent, relayVars, rxHist, turnHist>>
    /\ UNCHANGED <<pipeVars, sessHist, outsideCall>>

\* --------------------------------------------------------- agent_handler_task
Terminated(pc) == pc \in {"none", "done"}

\* task.cancel(): a task that has not finished gets CancelledError at its
\* next step.
Cancel_Ignored(pc) == pc

Cancel(pc) == IF Terminated(pc) THEN pc ELSE "cancelling"

\* interruption_event.clear() at the start of a turn.
TurnStartSignal_Keep(e) == e

TurnStartSignal(e) == FALSE

\* transcript = await transcript_queue.get(), a transcript: clear the signal,
\* set the speaking flag, create the sentence queue and the three tasks, and
\* wait for the first of producer and interruption.
HandlerGetTranscript ==
    /\ h_pc = "get"
    /\ ~h_cancel
    /\ transcript_queue # <<>>
    /\ Head(transcript_queue) # None
    /\ turn < MaxTurns
    /\ transcript_queue' = Tail(transcript_queue)
    /\ interruption_event' = TurnStartSignal(interruption_event)
    /\ set_at_start' = [set_at_start EXCEPT ![turn + 1] = interruption_event]
    /\ agent_is_speaking_event' = TRUE
    /\ turn' = turn + 1
    /\ sentence_queue' = [sentence_queue EXCEPT ![turn + 1] = <<>>]
    /\ prod_pc' = [prod_pc EXCEPT ![turn + 1] = "run"]
    /\ cons_pc' = [cons_pc EXCEPT ![turn + 1] = "top"]
    /\ waiter' = "new"
    /\ h_pc' = "wait"
    /\ turn_speech' = 0
    /\ UNCHANGED <<audio_queue, main_pc, h_cancel, prod_emitted, senderVars, rxVars,
                   relayVars, speech_run, silence_run, last_raise, last_final,
                   turnHist>>
    /\ UNCHANGED <<pipeVars, end_calls, raise_count, interrupted, outsideCall>>

\* transcript is None: break; finally: agent_is_speaking_event.clear().
HandlerGetNone ==
    /\ h_pc = "get"
    /\ ~h_cancel
    /\ transcript_queue # <<>>
    /\ Head(transcript_queue) = None
    /\ transcript_queue' = Tail(transcript_queue)
    /\ agent_is_speaking_event' = FALSE
    /\ h_pc' = "done"
    /\ UNCHANGED <<audio_queue, interruption_event, main_pc, h_cancel, turn, waiter,
                   turnVars, senderVars, rxVars, relayVars, rxHist, turnHist>>
    /\ UNCHANGED <<pipeVars, sessHist, outsideCall>>

\* The three tasks of a turn are created together (lines 175-185) and the
\* event loop runs ready callbacks in the order they were scheduled: the first
\* step of the interruption task precedes every resumption of the producer,
\* of the consumer and of the handler.
WaiterStarted(t) == t = turn => waiter # "new"

\* First step of interruption_event.wait(): returns at once if the event is
\* set, else registers a waiter that the next set() completes.
WaiterStart ==
    /\ waiter = "new"
    /\ waiter' = IF interruption_event THEN "done" ELSE "waiting"
    /\ UNCHANGED <<sessionVars, h_pc, h_cancel, turn, turnVars, senderVars, rxVars,
                   relayVars, rxHist, turnHist>>
    /\ UNCHANGED <<pipeVars, sessHist, outsideCall>>

\* asyncio.wait(..., FIRST_COMPLETED) returns with the interruption task done:
\* cancel both tasks, clear both queues, then gather the two tasks.
HandlerInterrupted ==
    /\ h_pc = "wait"
    /\ ~h_cancel
    /\ waiter = "done"
    /\ prod_pc' = [prod_pc EXCEPT ![turn] = Cancel(prod_pc[turn])]
    /\ cons_pc' = [cons_pc EXCEPT ![turn] = Cancel(cons_pc[turn])]
    /\ sentence_queue' = [sentence_queue EXCEPT ![turn] = <<>>]
    /\ audio_queue' = <<>>
    /\ waiter' = "none"
    /\ h_pc' = "gather"
    /\ interrupted' = [interrupted EXCEPT ![turn] = TRUE]
    /\ UNCHANGED <<transcript_queue, interruption_event, agent_is_speaking_event,
                   main_pc, h_cancel, turn, prod_emitted, senderVars, rxVars, relayVars,
                   rxHist, turnHist>>
    /\ UNCHANGED <<pipeVars, end_calls, raise_count, set_at_start, outsideCall>>

\* asyncio.wait returns with only the producer done: cancel the interruption
\* task and await the consumer.
HandlerProducerDone ==
    /\ h_pc = "wait"
    /\ ~h_cancel
    /\ WaiterStarted(turn)
    /\ waiter # "done"
    /\ prod_pc[turn] = "done"
    /\ waiter' = "none"
    /\ h_pc' = "await_consumer"
    /\ UNCHANGED <<sessionVars, h_cancel, turn, turnVars, senderVars, rxVars, relayVars,
                   rxHist, turnHist>>
    /\ UNCHANGED <<pipeVars, sessHist, outsideCall>>

\* await asyncio.gather(producer_task, consumer_task, return_exceptions=True)
GatheredBoth_Never(t) == FALSE

GatheredBoth(t) == prod_pc[t] = "done" /\ cons_pc[t] = "done"

\* agent_is_speaking_event.clear() after the turn (line 212, and the finally
\* block).
FlagAtTurnEnd_Keep(f) == f

FlagAtTurnEnd(f) == FALSE

\* End of the interrupted branch: both tasks have finished; the flag is
\* cleared (line 212, or the finally block when the handler was cancelled
\* while gathering).
HandlerGathered ==
    /\ h_pc = "gather"
    /\ GatheredBoth(turn)
    /\ agent_is_speaking_event' = FlagAtTurnEnd(agent_is_speaking_event)
    /\ h_pc' = IF h_cancel THEN "done" ELSE "get"
    /\ h_cancel' = FALSE
    /\ UNCHANGED <<transcript_queue, audio_queue, interruption_event, main_pc, turn,
                   waiter, turnVars, senderVars, rxVars, relayVars, rxHist, turnHist>>
    /\ UNCHANGED <<pipeVars, sessHist, outsideCall>>

\* await consumer_task
AwaitedConsumer_Skip(t) == TRUE

AwaitedConsumer(t) == cons_pc[t] = "done"

\* End of the normal branch: the consumer has finished; the flag is cleared.
HandlerConsumerDone ==
    /\ h_pc = "await_consumer"
    /\ ~h_cancel
    /\ AwaitedConsumer(turn)
    /\ agent_is_speaking_event' = FlagAtTurnEnd(agent_is_speaking_event)
    /\ h_pc' = "get"
    /\ UNCHANGED <<transcript_queue, audio_queue, interruption_event, main_pc, h_cancel,
                   turn, waiter, turnVars, senderVars, rxVars, relayVars, rxHist,
                   turnHist>>
    /\ UNCHANGED <<pipeVars, sessHist, outsideCall>>

\* CancelledError delivered at transcript_queue.get(), at asyncio.wait or at
\* an await of an already finished consumer: except, finally: clear the flag.
HandlerCancelled ==
    /\ h_cancel
    /\ h_pc \in {"get", "wait", "await_consumer"}
    /\ agent_is_speaking_event' = FALSE
    /\ h_pc' = "done"
    /\ h_cancel' = FALSE
    /\ UNCHANGED <<transcript_queue, audio_queue, interruption_event, main_pc, turn,
                   waiter, turnVars, senderVars, rxVars, relayVars, rxHist, turnHist>>
    /\ UNCHANGED <<pipeVars, sessHist, outsideCall>>

\* ----------------------------------------------------------------- llm_producer
\* await queue.put(item) on an asyncio.Queue: first in, first out.
Enqueue_Front(q, x) == <<x>> \o q

Enqueue(q, x) == Append(q, x)

\* What the producer posts when it ends: await sentence_queue.put(None).
ExitSentinels_Twice == <<SentenceNone, SentenceNone>>

ExitSentinels == <<SentenceNone>>

\* The policy yields a sentence: the producer stops if the signal is set
\* (break, then the finally block posts the sentinel), else enqueues it.
ProducerSentence(t) ==
    /\ prod_pc[t] = "run"
    /\ WaiterStarted(t)
    /\ prod_emitted[t] < sentence_limit
    /\ IF interruption_event
       THEN /\ sentence_queue' = [sentence_queue EXCEPT ![t] = @ \o ExitSentinels]
            /\ prod_sentinels' = [prod_sentinels EXCEPT ![t] = @ + Len(ExitSentinels)]
            /\ prod_pc' = [prod_pc EXCEPT ![t] = "done"]
            /\ UNCHANGED prod_emitted
       ELSE /\ sentence_queue' = [sentence_queue EXCEPT
                                     ![t] = Enqueue(@, prod_emitted[t] + 1)]
            /\ prod_emitted' = [prod_emitted EXCEPT ![t] = @ + 1]
            /\ UNCHANGED <<prod_pc, prod_sentinels>>
    /\ UNCHANGED <<cons_cur, taken_order, sent_order>>
    /\ UNCHANGED <<sessionVars, handlerVars, cons_pc, senderVars, rxVars, relayVars,
                   rxHist, turnHist>>
    /\ UNCHANGED <<sessHist, outsideCall>>

\* The policy yields its final chunk, ends or fails, or the task is
\* cancelled: the finally block posts the sentinel.  Without an agent manager
\* the producer posts the sentinel and returns before the try block.
ProducerExit(t) ==
    /\ prod_pc[t] \in {"run", "cancelling"}
    /\ sentence_queue' = [sentence_queue EXCEPT ![t] = @ \o ExitSentinels]
    /\ prod_sentinels' = [prod_sentinels EXCEPT ![t] = @ + Len(ExitSentinels)]
    /\ UNCHANGED <<cons_cur, taken_order, sent_order>>
    /\ prod_pc' = [prod_pc EXCEPT ![t] = "done"]
    /\ UNCHANGED <<sessionVars, handlerVars, prod_emitted, cons_pc, senderVars, rxVars,
                   relayVars, rxHist, turnHist>>
    /\ UNCHANGED <<sessHist, outsideCall>>

\* ----------------------------------------------------------------- tts_consumer
\* Dequeue of the sentence queue: the sentinel ends the consumer, a sentence
\* goes to the synthesis in the executor.
TakeSentence(t) ==
    /\ sentence_queue' = [sentence_queue EXCEPT ![t] = Tail(@)]
    /\ cons_cur' = [cons_cur EXCEPT ![t] = Head(sentence_queue[t])]
    /\ taken_order' = IF Head(sentence_queue[t]) = SentenceNone THEN taken_order
                      ELSE [taken_order EXCEPT ![t] = Append(@, Head(sentence_queue[t]))]
    /\ cons_pc' = [cons_pc EXCEPT ![t] = IF Head(sentence_queue[t]) = SentenceNone
                                         THEN "done" ELSE "synth"]

\* Loop top: if interruption_event.is_set(): break; else
\* sentence = await sentence_queue.get().
ConsumerTop(t) ==
    /\ cons_pc[t] = "top"
    /\ IF interruption_event
       THEN /\ cons_pc' = [cons_pc EXCEPT ![t] = "done"]
            /\ UNCHANGED <<sentence_queue, cons_cur, taken_order>>
       ELSE IF sentence_queue[t] # <<>>
            THEN TakeSentence(t)
            ELSE /\ cons_pc' = [cons_pc EXCEPT ![t] = "get"]
                 /\ UNCHANGED <<sentence_queue, cons_cur, taken_order>>
    /\ UNCHANGED <<prod_sentinels, sent_order>>
    /\ UNCHANGED <<sessionVars, handlerVars, prod_pc, prod_emitted, senderVars, rxVars,
                   relayVars, rxHist, turnHist>>
    /\ UNCHANGED <<sessHist, outsideCall>>

\* The blocked sentence_queue.get() returns.
ConsumerGet(t) ==
    /\ cons_pc[t] = "get"
    /\ WaiterStarted(t)
    /\ sentence_queue[t] # <<>>
    /\ TakeSentence(t)
    /\ UNCHANGED <<prod_sentinels, sent_order>>
    /\ UNCHANGED <<sessionVars, handlerVars, prod_pc, prod_emitted, senderVars, rxVars,
                   relayVars, rxHist, turnHist>>
    /\ UNCHANGED <<sessHist, outsideCall>>

\* An exception that leaves synthesize_speech.
TtsRaised == [raised |-> TRUE, frames |-> 0]

\* synthesize_speech: without a model it raises before its try block; with a
\* model it returns the audio, or from except Exception a buffer of silence:
\* n frames either way.
synthesize_speech(model, n) ==
    IF model = None THEN TtsRaised ELSE [raised |-> FALSE, frames |-> n]

\* The synthesis returns n frames of audio: the chunk is dropped if the
\* signal is set, else put on the audio queue.  An exception out of the
\* executor is caught by the consumer's except Exception, outside the loop:
\* the consumer ends.
ConsumerSynthDone(t, n) ==
    /\ cons_pc[t] = "synth"
    /\ WaiterStarted(t)
    /\ LET audio_bytes == synthesize_speech(tts_model, n)
       IN  IF audio_bytes = TtsRaised \/ interruption_event
           THEN /\ cons_pc' = [cons_pc EXCEPT ![t] = "done"]
                /\ UNCHANGED <<audio_queue, published>>
           ELSE /\ audio_queue' = Enqueue(audio_queue,
                                          [turn |-> t, frames |-> audio_bytes.frames,
                                           sent |-> cons_cur[t]])
                /\ published' = [published EXCEPT ![t] = @ + 1]
                /\ cons_pc' = [cons_pc EXCEPT ![t] = "top"]
    /\ UNCHANGED <<transcript_queue, interruption_event, agent_is_speaking_event,
                   main_pc, handlerVars, prod_pc, prod_emitted, sentence_queue,
                   senderVars, rxVars, relayVars, rxHist, raised, unanswered, intr_sent,
                   sent_audio, stale_written>>
    /\ UNCHANGED <<pipeVars, sessHist, outsideCall>>

\* What the consumer puts on the audio queue when it ends: its finally block
\* only prints.
ConsumerExitPosts_Sentinel == <<AudioNone>>

ConsumerExitPosts == <<>>

\* except asyncio.CancelledError: the consumer ends without a sentinel.
ConsumerCancelled(t) ==
    /\ cons_pc[t] = "cancelling"
    /\ cons_pc' = [cons_pc EXCEPT ![t] = "done"]
    /\ audio_queue' = audio_queue \o ConsumerExitPosts
    /\ UNCHANGED <<transcript_queue, interruption_event, agent_is_speaking_event,
                   main_pc, handlerVars, prod_pc, prod_emitted, sentence_queue,
                   senderVars, rxVars, relayVars, rxHist, turnHist>>
    /\ UNCHANGED <<pipeVars, sessHist, outsideCall>>

\* ------------------------------------------------------------ audio_sender_task
\* Every audio_response the relay has not finished writing was sent before
\* this interrupt message.
MarkStale(w) == [i \in 1..Len(w) |-> [w[i] EXCEPT !.stale = (w[i].type = "audio_response")]]

\* Loop top with the signal set: await websocket.send_json({"type": "interrupt"}).
SenderSendInterrupt ==
    /\ s_pc = "top"
    /\ ~s_cancel
    /\ interruption_event
    /\ wire' = Append(MarkStale(wire), InterruptMsg)
    /\ relay_cur' = [relay_cur EXCEPT !.stale = (relay_pc = "pace" /\ relay_cur.left > 0)]
    /\ intr_sent' = IF unanswered \in Turns
                    THEN [intr_sent EXCEPT ![unanswered] = TRUE] ELSE intr_sent
    /\ unanswered' = 0
    /\ s_pc' = "clear"
    /\ UNCHANGED <<sessionVars, handlerVars, turnVars, s_chunk, s_cancel, rxVars,
                   relay_pc, rxHist, raised, published, sent_audio, stale_written>>
    /\ UNCHANGED <<pipeVars, sessHist, outsideCall>>

\* After the send: drain the audio queue, clear both events, sleep 50 ms.
SenderClear ==
    /\ s_pc = "clear"
    /\ ~s_cancel
    /\ audio_queue' = <<>>
    /\ interruption_event' = FALSE
    /\ agent_is_speaking_event' = FALSE
    /\ s_pc' = "sleep"
    /\ UNCHANGED <<transcript_queue, main_pc, handlerVars, turnVars, s_chunk, s_cancel,
                   rxVars, relayVars, rxHist, turnHist>>
    /\ UNCHANGED <<pipeVars, sessHist, outsideCall>>

\* The sleep ends: continue.
SenderSlept ==
    /\ s_pc = "sleep"
    /\ ~s_cancel
    /\ s_pc' = "top"
    /\ UNCHANGED <<sessionVars, handlerVars, turnVars, s_chunk, s_cancel, rxVars,
                   relayVars, rxHist, turnHist>>
    /\ UNCHANGED <<pipeVars, sessHist, outsideCall>>

\* Loop top with the signal clear: wait_for(audio_queue.get(), timeout)
\* dequeues a chunk (a timeout only loops).
SenderDequeue ==
    /\ s_pc = "top"
    /\ ~s_cancel
    /\ ~interruption_event
    /\ audio_queue # <<>>
    /\ s_chunk' = Head(audio_queue)
    /\ audio_queue' = Tail(audio_queue)
    /\ s_pc' = "got"
    /\ UNCHANGED <<transcript_queue, interruption_event, agent_is_speaking_event,
                   main_pc, handlerVars, turnVars, s_cancel, rxVars, relayVars, rxHist,
                   turnHist>>
    /\ UNCHANGED <<pipeVars, sessHist, outsideCall>>

\* With the chunk in hand: the end-of-turn sentinel clears the flag; a chunk
\* is dropped if the signal is set, else sent as an audio_response.
SenderGot ==
    /\ s_pc = "got"
    /\ ~s_cancel
    /\ IF s_chunk = AudioNone
       THEN /\ agent_is_speaking_event' = FALSE
            /\ UNCHANGED <<wire, sent_audio, sent_order>>
       ELSE IF interruption_event
            THEN UNCHANGED <<agent_is_speaking_event, wire, sent_audio, sent_order>>
            ELSE /\ wire' = Append(wire, AudioResponse(s_chunk))
                 /\ sent_audio' = [sent_audio EXCEPT ![s_chunk.turn] = @ + 1]
                 /\ sent_order' = [sent_order EXCEPT
                                     ![s_chunk.turn] = Append(@, s_chunk.sent)]
                 /\ UNCHANGED agent_is_speaking_event
    /\ UNCHANGED <<cons_cur, prod_sentinels, taken_order>>
    /\ s_chunk' = AudioNone
    /\ s_pc' = "top"
    /\ UNCHANGED <<transcript_queue, audio_queue, interruption_event, main_pc,
                   handlerVars, turnVars, s_cancel, rxVars, relay_pc, relay_cur, rxHist,
                   raised, unanswered, intr_sent, published, stale_written>>
    /\ UNCHANGED <<sessHist, outsideCall>>

\* except asyncio.CancelledError (at any await of the loop).
SenderCancelled ==
    /\ s_cancel
    /\ s_pc # "done"
    /\ s_pc' = "done"
    /\ s_cancel' = FALSE
    /\ UNCHANGED <<sessionVars, handlerVars, turnVars, s_chunk, rxVars, relayVars,
                   rxHist, turnHist>>
    /\ UNCHANGED <<pipeVars, sessHist, outsideCall>>

\* ------------------------------------------- relay: forward_ai_to_asterisk
\* write_audio_frame; await writer.drain(); await asyncio.sleep(0.02)
WriteFrame(stale) ==
    stale_written' = IF stale THEN stale_written + 1 ELSE stale_written

\* msg = await ws.recv(): an audio_response starts the pacing loop and writes
\* its first frame; no branch handles an interrupt; a transcript is printed.
RelayRecv ==
    /\ relay_pc = "recv"
    /\ wire # <<>>
    /\ wire' = Tail(wire)
    /\ LET m == Head(wire)
       IN  IF m.type = "audio_response" /\ m.frames > 0
           THEN /\ relay_cur' = [turn |-> m.turn, left |-> m.frames - 1, stale |-> m.stale]
                /\ relay_pc' = "pace"
                /\ WriteFrame(m.stale)
           ELSE UNCHANGED <<relay_cur, relay_pc, stale_written>>
    /\ UNCHANGED <<sessionVars, handlerVars, turnVars, senderVars, rxVars, rxHist,
                   raised, unanswered, intr_sent, published, sent_audio>>
    /\ UNCHANGED <<pipeVars, sessHist, outsideCall>>

\* The 20 ms sleep ends: the next frame of the chunk is written, or the loop
\* is over and the pump receives again.
RelayPace ==
    /\ relay_pc = "pace"
    /\ IF relay_cur.left > 0
       THEN /\ relay_cur' = [relay_cur EXCEPT !.left = @ - 1]
            /\ WriteFrame(relay_cur.stale)
            /\ UNCHANGED relay_pc
       ELSE /\ relay_pc' = "recv"
            /\ relay_cur' = [turn |-> 0, left |-> 0, stale |-> FALSE]
            /\ UNCHANGED stale_written
    /\ UNCHANGED <<sessionVars, handlerVars, turnVars, senderVars, rxVars, wire, rxHist,
                   raised, unanswered, intr_sent, published, sent_audio>>
    /\ UNCHANGED <<pipeVars, sessHist, outsideCall>>

\* ------------------------------------------------------------ websocket_vicidial
\* asyncio.wait(tasks, FIRST_COMPLETED) returns; finally: every task that is
\* not done is cancelled.  Cancelling the handler while it awaits the
\* consumer task cancels the consumer instead (Task.cancel forwards to the
\* awaited future), and gather forwards the cancellation to its children.
MainFirstCompleted ==
    /\ main_pc = "wait"
    /\ "done" \in {s_pc, h_pc, r_pc}
    /\ main_pc' = "gather"
    /\ s_cancel' = (s_pc # "done")
    /\ r_cancel' = (r_pc # "done")
    /\ h_cancel' = /\ h_pc # "done"
                   /\ ~(h_pc = "await_consumer" /\ cons_pc[turn] # "done")
    /\ cons_pc' = IF h_pc \in {"await_consumer", "gather"}
                  THEN [cons_pc EXCEPT ![turn] = Cancel(@)] ELSE cons_pc
    /\ prod_pc' = IF h_pc = "gather"
                  THEN [prod_pc EXCEPT ![turn] = Cancel(@)] ELSE prod_pc
    /\ UNCHANGED <<transcript_queue, audio_queue, interruption_event,
                   agent_is_speaking_event, h_pc, turn, waiter, prod_emitted,
                   sentence_queue, s_pc, s_chunk, r_pc, r_rest, msgs_left, is_speaking,
                   speech_chunks, silent_chunks, consecutive_speech_during_agent,
                   relayVars, rxHist, turnHist>>
    /\ UNCHANGED <<pipeVars, sessHist, outsideCall>>

\* await asyncio.gather(*tasks, return_exceptions=True)
AllGathered == s_pc = "done" /\ h_pc = "done" /\ r_pc = "done"

\* The gather returns; agent.end_call(session_id, "completed").
MainEnded ==
    /\ main_pc = "gather"
    /\ AllGathered
    /\ main_pc' = "ended"
    /\ end_calls' = end_calls + 1
    /\ UNCHANGED <<transcript_queue, audio_queue, interruption_event,
                   agent_is_speaking_event, handlerVars, turnVars, senderVars, rxVars,
                   relayVars, rxHist, turnHist>>
    /\ UNCHANGED <<pipeVars, raise_count, set_at_start, interrupted, outsideCall>>

\* ------------------------------------------------------------------ the system
\* load_models: the Kokoro pipeline was created and injected.
TtsLoaded == tts_model = "loaded"

\* The state after websocket_vicidial has created the queues, the events and
\* the three tasks and has put the empty bootstrap transcript.
InitBut ==
    /\ transcript_queue = <<"">>
    /\ audio_queue = <<>>
    /\ interruption_event = FALSE
    /\ agent_is_speaking_event = FALSE
    /\ main_pc = "wait"
    /\ h_pc = "get"
    /\ h_cancel = FALSE
    /\ turn = 0
    /\ waiter = "none"
    /\ prod_pc = [t \in Turns |-> "none"]
    /\ prod_emitted = [t \in Turns |-> 0]
    /\ sentence_queue = [t \in Turns |-> <<>>]
    /\ cons_pc = [t \in Turns |-> "none"]
    /\ s_pc = "top"
    /\ s_chunk = AudioNone
    /\ s_cancel = FALSE
    /\ r_pc = "recv"
    /\ r_cancel = FALSE
    /\ r_rest = [kind |-> "low", n |-> 0]
    /\ is_speaking = FALSE
    /\ speech_chunks = 0
    /\ silent_chunks = 0
    /\ consecutive_speech_during_agent = 0
    /\ wire = <<>>
    /\ relay_pc = "recv"
    /\ relay_cur = [turn |-> 0, left |-> 0, stale |-> FALSE]
    /\ speech_run = 0
    /\ silence_run = 0
    /\ turn_speech = 0
    /\ last_raise = NoRaise
    /\ last_final = NoFinal
    /\ raised = [t \in Turns |-> FALSE]
    /\ unanswered = 0
    /\ intr_sent = [t \in Turns |-> FALSE]
    /\ published = [t \in Turns |-> 0]
    /\ sent_audio = [t \in Turns |-> 0]
    /\ stale_written = 0
    /\ cons_cur = [t \in Turns |-> SentenceNone]
    /\ prod_sentinels = [t \in Turns |-> 0]
    /\ taken_order = [t \in Turns |-> <<>>]
    /\ sent_order = [t \in Turns |-> <<>>]
    /\ end_calls = 0
    /\ raise_count = [t \in Turns |-> 0]
    /\ set_at_start = [t \in Turns |-> FALSE]
    /\ interrupted = [t \in Turns |-> FALSE]

\* ------------------------------------------------ relay: protocol constants
TYPE_UUID == 1

TYPE_AUDIO_SLIN8K == 16

TYPE_HANGUP == 0

\* uuid_frame = await reader.read(19)
UUID_FRAME_BYTES == 19

\* The length field of a UUID frame, by the protocol.
UUID_LENGTH == 16

\* Frame types the relay does not know.
UnknownTypes == {255}

NoHandshake == [type |-> TYPE_UUID, len |-> UUID_LENGTH, nbytes |-> UUID_FRAME_BYTES]

PbxIdle ==
    /\ hs = NoHandshake
    /\ call_pc = "closed"
    /\ ws = "none"
    /\ a2ai_pc = "off"
    /\ ai2a_pc = "off"
    /\ pbx_left = 0
    /\ pbx_sock = "closed"
    /\ hangup_sent = FALSE
    /\ forwarded = 0
    /\ bad_seen = FALSE

\* ------------------------------------- calls, session ids and persistence
MaxCalls == 2          \* calls the relay accepts
MaxClock == 2          \* seconds of wall clock
MaxRecTurns == 2       \* entries in the turn list of one buffer

Calls == 1..MaxCalls

SessionIds == 1..MaxClock

NoBuffer == [present |-> FALSE, turns |-> 0, info |-> {}]

NoRecord == [present |-> FALSE, status |-> "none", total_turns |-> 0, stored |-> 0]

\* No call has been accepted by the relay.
DbIdle ==
    /\ clock = 1
    /\ sess_pc = [c \in Calls |-> "idle"]
    /\ session_id = [c \in Calls |-> 0]
    /\ call_buffers = [i \in SessionIds |-> NoBuffer]
    /\ checkpoint = [i \in SessionIds |-> {}]
    /\ db = [i \in SessionIds |-> NoRecord]
    /\ saved = [c \in Calls |-> 0]
    /\ end_cause = [c \in Calls |-> "none"]
    /\ flush_reason = [c \in Calls |-> "none"]

\* The relay's agent-to-PBX pump has written no frame.
NoFrame == [type |-> TYPE_AUDIO_SLIN8K, hi |-> 0, lo |-> 0, payload |-> 0]

PacerIdle ==
    /\ pace_pc = "recv"
    /\ out_len = 0
    /\ out_off = 0
    /\ pace_left = 0
    /\ last_frame = NoFrame
    /\ unslept = 0

\* The relay's PBX-to-agent pump reads no byte stream.
PumpIdle ==
    /\ pbx_stream = <<>>
    /\ pbx_bytes = <<>>
    /\ pump_pc = "done"
    /\ length = 0
    /\ read_pos = 0
    /\ ws_sent = <<>>

\* process_message_streaming has not been called.
ConvIdle ==
    /\ pms_pc = "idle"
    /\ conv_turn = 0
    /\ user_message = 0
    /\ buffer_turns = <<>>
    /\ buffer_patient_info = {}
    /\ graph_messages = <<>>
    /\ graph_patient_info = {}
    /\ full_state = <<>>
    /\ final_tool = "none"
    /\ turn_log = <<>>

SideIdle == PumpIdle /\ ConvIdle

\* The SentenceBuffer is not in use.
SegUnused ==
    /\ seg_stream = <<>>
    /\ seg_pos = 0
    /\ min_words = 1
    /\ buffer = <<>>
    /\ word_count = 0
    /\ is_final = FALSE
    /\ seg_emits = <<>>

\* No response is being segmented; the relay's side of the call is not run.
SegIdle ==
    /\ PbxIdle
    /\ DbIdle
    /\ PacerIdle
    /\ seg_stream = <<>>
    /\ seg_pos = 0
    /\ min_words = 1
    /\ buffer = <<>>
    /\ word_count = 0
    /\ is_final = FALSE
    /\ seg_emits = <<>>

Init == InitBut /\ msgs_left = MaxMsgs /\ sentence_limit = MaxSentences /\ TtsLoaded /\ SideIdle /\ SegIdle

\* The live call: the caller side sends audio and neither hangs up nor
\* disconnects; the messages the agent sends stay on the wire.
Next ==
    \/ \E m \in AudioMsgs : RecvAudio(m)
    \/ \E outcome \in SttOutcomes : RecvSttDone(outcome)
    \/ HandlerGetTranscript
    \/ WaiterStart
    \/ HandlerInterrupted
    \/ HandlerProducerDone
    \/ HandlerGathered
    \/ HandlerConsumerDone
    \/ \E t \in Turns : ProducerSentence(t)
    \/ \E t \in Turns : ProducerExit(t)
    \/ \E t \in Turns : ConsumerTop(t)
    \/ \E t \in Turns : ConsumerGet(t)
    \/ \E t \in Turns, n \in ChunkFrames : ConsumerSynthDone(t, n)
    \/ \E t \in Turns : ConsumerCancelled(t)
    \/ SenderSendInterrupt
    \/ SenderClear
    \/ SenderSlept
    \/ SenderDequeue
    \/ SenderGot

Spec == Init /\ [][Next]_vars

\* The steps of each task of the live call.
HandlerStep ==
    \/ HandlerGetTranscript
    \/ HandlerInterrupted
    \/ HandlerProducerDone
    \/ HandlerGathered
    \/ HandlerConsumerDone

ProducerStep(t) == ProducerSentence(t) \/ ProducerExit(t)

ConsumerStep(t) ==
    \/ ConsumerTop(t)
    \/ ConsumerGet(t)
    \/ (\E n \in ChunkFrames : ConsumerSynthDone(t, n))
    \/ ConsumerCancelled(t)

SenderStep ==
    \/ SenderSendInterrupt
    \/ SenderClear
    \/ SenderSlept
    \/ SenderDequeue
    \/ SenderGot

\* The live call with a policy that streams a burst of sentences in a turn.
MaxBurst == 6          \* sentences the policy streams in one turn of a burst
MaxMsgsBurst == 1      \* audio_data messages the receiver takes in that call

InitBurst ==
    InitBut /\ msgs_left = MaxMsgsBurst /\ sentence_limit = MaxBurst /\ TtsLoaded /\ SideIdle /\ SegIdle

\* One message cannot both open and close an utterance, so no transcription
\* ends in such a call: the call has the greeting turn only.
NextBurst ==
    \/ \E m \in AudioMsgs : RecvAudio(m)
    \/ HandlerGetTranscript
    \/ WaiterStart
    \/ HandlerInterrupted
    \/ HandlerProducerDone
    \/ HandlerGathered
    \/ HandlerConsumerDone
    \/ \E t \in Turns : ProducerSentence(t)
    \/ \E t \in Turns : ProducerExit(t)
    \/ \E t \in Turns : ConsumerTop(t)
    \/ \E t \in Turns : ConsumerGet(t)
    \/ \E t \in Turns, n \in ChunkFrames : ConsumerSynthDone(t, n)
    \/ \E t \in Turns : ConsumerCancelled(t)
    \/ SenderSendInterrupt
    \/ SenderClear
    \/ SenderSlept
    \/ SenderDequeue
    \/ SenderGot

BurstSpec == InitBurst /\ [][NextBurst]_vars

\* The live call together with the relay's agent-to-PBX pump.
InitRelay ==
    InitBut /\ msgs_left = MaxMsgsRelay /\ sentence_limit = MaxSentences /\ TtsLoaded /\ SideIdle /\ SegIdle

NextRelay == Next \/ RelayRecv \/ RelayPace

RelaySpec == InitRelay /\ [][NextRelay]_vars

\* The live call on an event loop that runs every task that is ready: each
\* task of the agent takes its next step when it can; the caller's audio and
\* the results of the transcription come as they come.
LiveFair ==
    /\ InitRelay /\ [][Next]_vars
    /\ WF_vars(HandlerStep)
    /\ WF_vars(WaiterStart)
    /\ \A t \in Turns : WF_vars(ProducerStep(t)) /\ WF_vars(ConsumerStep(t))
    /\ WF_vars(SenderStep)

\* The call with its end: hangup, disconnect and the teardown of the session.
NextTeardown ==
    \/ NextRelay
    \/ RecvHangup
    \/ RecvAbort
    \/ HandlerGetNone
    \/ HandlerCancelled
    \/ SenderCancelled
    \/ MainFirstCompleted
    \/ MainEnded

TeardownSpec == InitRelay /\ [][NextTeardown]_vars

\* ------------------------------------- SentenceBuffer (streaming/buffer.py)
\* A string is a sequence of one-character strings.
MaxStreamLen == 5      \* characters in one streamed response
MaxTokenLen == 2       \* characters in one token of the stream
MaxMinWords == 2       \* largest min_words a buffer is constructed with

\* The characters of a response: lower-case letters, an upper-case letter, a
\* digit, white space and two of the terminators.
Chars == {"i", "e", "D", "1", " ", ".", "?"}

\* str.isupper(), str.isdigit(), str.isspace() of one character
UpperChars ==
    {"A", "B", "C", "D", "E", "F", "G", "H", "I", "J", "K", "L", "M", "N", "O", "P",
     "Q", "R", "S", "T", "U", "V", "W", "X", "Y", "Z"}

DigitChars == {"0", "1", "2", "3", "4", "5", "6", "7", "8", "9"}

IsSpace(c) == c \in {" ", "\t", "\n", "\r"}

\* self.abbreviations
abbreviations ==
    { <<"D", "r", ".">>, <<"M", "r", ".">>, <<"M", "r", "s", ".">>, <<"M", "s", ".">>,
      <<"P", "r", "o", "f", ".">>, <<"S", "r", ".">>, <<"J", "r", ".">>,
      <<"e", "t", "c", ".">>, <<"i", ".", "e", ".">>, <<"e", ".", "g", ".">>,
      <<"v", "s", ".">>, <<"I", "n", "c", ".">>, <<"L", "t", "d", ".">>,
      <<"C", "o", ".">> }

sentence_terminators == <<".", "?", "!">>

RECURSIVE LStrip(_)
LStrip(s) == IF s = <<>> \/ ~IsSpace(Head(s)) THEN s ELSE LStrip(Tail(s))

RECURSIVE RStrip(_)
RStrip(s) ==
    IF s = <<>> \/ ~IsSpace(s[Len(s)]) THEN s ELSE RStrip(SubSeq(s, 1, Len(s) - 1))

\* str.strip()
Strip(s) == RStrip(LStrip(s))

\* Length of the first word of a string that does not start with white space.
RECURSIVE WordLen(_)
WordLen(s) == IF s = <<>> \/ IsSpace(Head(s)) THEN 0 ELSE 1 + WordLen(Tail(s))

\* str.split(): the words between runs of white space.
RECURSIVE Split(_)
Split(s) ==
    LET t == LStrip(s)
    IN  IF t = <<>> THEN <<>>
        ELSE <<SubSeq(t, 1, WordLen(t))>> \o Split(SubSeq(t, WordLen(t) + 1, Len(t)))

Contains(s, c) == \E i \in 1..Len(s) : s[i] = c

\* str.rfind(c), for a string that contains c.
RFind(s, c) == CHOOSE i \in 1..Len(s) : s[i] = c /\ \A j \in (i + 1)..Len(s) : s[j] # c

\* potential_sentence[-3:].replace('.', '').isdigit()
EndsInNumber(s) ==
    LET last3 == SubSeq(s, IF Len(s) > 3 THEN Len(s) - 2 ELSE 1, Len(s))
        kept == SelectSeq(last3, LAMBDA c : c # ".")
    IN  kept # <<>> /\ \A i \in 1..Len(kept) : kept[i] \in DigitChars

\* SentenceBuffer._is_valid_sentence_boundary
is_valid_sentence_boundary(potential_sentence, after_text) ==
    LET words == Split(potential_sentence)
    IN  IF words # <<>> /\ words[Len(words)] \in abbreviations THEN FALSE
        ELSE IF EndsInNumber(potential_sentence) THEN FALSE
        ELSE \/ after_text = <<>>
             \/ after_text[1] \in UpperChars
             \/ IsSpace(after_text[1])

\* The split of the buffer at the last occurrence of a terminator.
Candidate(buf, term) ==
    LET last_term_idx == RFind(buf, term)
    IN  [sentence |-> Strip(SubSeq(buf, 1, last_term_idx)),
         after |-> LStrip(SubSeq(buf, last_term_idx + 1, Len(buf)))]

\* sentence_word_count >= self.min_words or (self.is_final and sentence_word_count > 0)
EnoughWords_Any(sb, n) == n > 0

EnoughWords(sb, n) == n >= sb.min_words \/ (sb.is_final /\ n > 0)

Accepts(sb, buf, term) ==
    /\ Contains(buf, term)
    /\ LET c == Candidate(buf, term)
       IN  /\ is_valid_sentence_boundary(c.sentence, c.after)
           /\ EnoughWords(sb, Len(Split(c.sentence)))

\* SentenceBuffer.add_token: the new buffer and the sentence returned
\* (<<>> for None).
add_token(sb, token) ==
    LET buf == sb.buffer \o token
        wc == IF Strip(token) # <<>> THEN sb.word_count + Len(Split(token))
              ELSE sb.word_count
        hits == {k \in 1..Len(sentence_terminators) :
                    Accepts(sb, buf, sentence_terminators[k])}
    IN  IF hits = {}
        THEN [sb |-> [sb EXCEPT !.buffer = buf, !.word_count = wc], ret |-> <<>>]
        ELSE LET k == CHOOSE k \in hits : \A j \in hits : k <= j
                 c == Candidate(buf, sentence_terminators[k])
             IN  [sb |-> [sb EXCEPT !.buffer = c.after,
                                    !.word_count = Len(Split(c.after))],
                  ret |-> c.sentence]

\* SentenceBuffer.mark_final
mark_final(sb) ==
    LET f == [sb EXCEPT !.is_final = TRUE]
    IN  IF Strip(f.buffer) = <<>> THEN [sb |-> f, ret |-> <<>>]
        ELSE LET r == add_token(f, <<>>)
             IN  IF r.ret # <<>> THEN r
                 ELSE [sb |-> [r.sb EXCEPT !.buffer = <<>>], ret |-> Strip(r.sb.buffer)]

SegState ==
    [buffer |-> buffer, word_count |-> word_count, is_final |-> is_final,
     min_words |-> min_words]

\* The result of a call is written back; a sentence returned is yielded.
SegApply(r, by) ==
    /\ buffer' = r.sb.buffer
    /\ word_count' = r.sb.word_count
    /\ is_final' = r.sb.is_final
    /\ seg_emits' = IF r.ret = <<>> THEN seg_emits
                    ELSE Append(seg_emits, [s |-> r.ret, by |-> by])

callCore == <<sessionVars, handlerVars, turnVars, senderVars, rxVars, relayVars,
              rxHist, turnHist, sessHist, pipeVars, pipeEnv>>
callVars == <<callCore, sideVars>>

\* agent_node_streaming: the next token of n characters arrives.
SegFeed(n) ==
    /\ ~is_final
    /\ seg_pos + n <= Len(seg_stream)
    /\ seg_pos' = seg_pos + n
    /\ SegApply(add_token(SegState, SubSeq(seg_stream, seg_pos + 1, seg_pos + n)),
                "add_token")
    /\ UNCHANGED <<seg_stream, min_words, callVars, pbxVars, dbVars, pacerVars>>

\* agent_node_streaming: the stream has ended; final_sentence = mark_final().
SegFinal ==
    /\ ~is_final
    /\ seg_pos = Len(seg_stream)
    /\ SegApply(mark_final(SegState), "mark_final")
    /\ UNCHANGED <<seg_stream, seg_pos, min_words, callVars, pbxVars, dbVars, pacerVars>>

Streams == UNION {[1..n -> Chars] : n \in 0..MaxStreamLen}

InitSegmenter ==
    /\ InitBut /\ msgs_left = 0 /\ sentence_limit = MaxSentences /\ TtsLoaded /\ SideIdle /\ PbxIdle /\ DbIdle
    /\ PacerIdle
    /\ seg_stream \in Streams
    /\ min_words \in 1..MaxMinWords
    /\ seg_pos = 0
    /\ buffer = <<>>
    /\ word_count = 0
    /\ is_final = FALSE
    /\ seg_emits = <<>>

NextSegmenter == (\E n \in 1..MaxTokenLen : SegFeed(n)) \/ SegFinal

SegmenterSpec == InitSegmenter /\ [][NextSegmenter]_vars

\* ------------------------------------------ relay: handle_call and its pumps
MaxPbxFrames == 2

HandshakeTypes == {TYPE_HANGUP, TYPE_UUID, TYPE_AUDIO_SLIN8K}

HandshakeLens == {0, UUID_LENGTH}

HandshakeSizes == {0, 3, UUID_FRAME_BYTES}

\* if not uuid_frame or uuid_frame[0] != TYPE_UUID: return
HandshakeAccepted(f) == f.nbytes > 0 /\ f.type = TYPE_UUID

\* handle_call up to the gather: read the first frame; reject it, or connect to
\* the agent (the connection may fail) and start both pumps.  A rejected frame
\* and a failed connection both leave through the finally: writer.close().
CallHandshake(connects) ==
    /\ call_pc = "handshake"
    /\ IF HandshakeAccepted(hs) /\ connects
       THEN /\ ws' = "open"
            /\ a2ai_pc' = "read"
            /\ ai2a_pc' = "recv"
            /\ call_pc' = "pumping"
            /\ UNCHANGED pbx_sock
       ELSE /\ call_pc' = "closed"
            /\ pbx_sock' = "closed"
            /\ UNCHANGED <<ws, a2ai_pc, ai2a_pc>>
    /\ UNCHANGED <<hs, pbx_left, hangup_sent, forwarded, bad_seen, callVars, segVars, dbVars, pacerVars>>

\* forward_asterisk_to_ai, one turn of its loop on a whole frame from the PBX.
\* A send on a WebSocket the agent has closed raises; the except ends the pump.
PbxFrame(type) ==
    /\ a2ai_pc = "read"
    /\ pbx_sock = "open"
    /\ pbx_left > 0
    /\ pbx_left' = pbx_left - 1
    /\ IF type = TYPE_HANGUP
       THEN /\ a2ai_pc' = "done"
            /\ hangup_sent' = (ws = "open")
            /\ UNCHANGED <<forwarded, bad_seen>>
       ELSE IF type # TYPE_AUDIO_SLIN8K
       THEN /\ bad_seen' = TRUE
            /\ UNCHANGED <<a2ai_pc, hangup_sent, forwarded>>
       ELSE /\ IF ws = "open"
               THEN forwarded' = forwarded + 1 /\ UNCHANGED a2ai_pc
               ELSE a2ai_pc' = "done" /\ UNCHANGED forwarded
            /\ UNCHANGED <<hangup_sent, bad_seen>>
    /\ UNCHANGED <<hs, call_pc, ws, ai2a_pc, pbx_sock, callVars, segVars, dbVars, pacerVars>>

\* The PBX closes its socket: reader.read(3) returns b'' and the pump breaks.
PbxEof ==
    /\ a2ai_pc = "read"
    /\ pbx_sock = "open"
    /\ pbx_sock' = "eof"
    /\ a2ai_pc' = "done"
    /\ UNCHANGED <<hs, call_pc, ws, ai2a_pc, pbx_left, hangup_sent, forwarded, bad_seen,
                   callVars, segVars, dbVars, pacerVars>>

\* forward_ai_to_asterisk receives {"type": "hangup"} and breaks.
AgentHangupMsg ==
    /\ ai2a_pc = "recv"
    /\ ws = "open"
    /\ ai2a_pc' = "done"
    /\ UNCHANGED <<hs, call_pc, ws, a2ai_pc, pbx_left, pbx_sock, hangup_sent, forwarded,
                   bad_seen, callVars, segVars, dbVars, pacerVars>>

\* forward_ai_to_asterisk receives an audio_response and writes it to the PBX;
\* on a socket the PBX has closed the drain may raise, which ends the pump.
AgentAudio(raises) ==
    /\ ai2a_pc = "recv"
    /\ ws = "open"
    /\ raises => pbx_sock = "eof"
    /\ ai2a_pc' = IF raises THEN "done" ELSE "recv"
    /\ UNCHANGED <<hs, call_pc, ws, a2ai_pc, pbx_left, pbx_sock, hangup_sent, forwarded,
                   bad_seen, callVars, segVars, dbVars, pacerVars>>

\* The agent closes the WebSocket of its own accord.
AgentWsClose ==
    /\ ws = "open"
    /\ ~hangup_sent
    /\ ws' = "peer_closed"
    /\ UNCHANGED <<hs, call_pc, a2ai_pc, ai2a_pc, pbx_left, pbx_sock, hangup_sent, forwarded,
                   bad_seen, callVars, segVars, dbVars, pacerVars>>

\* The agent closes the WebSocket because it was told of the hangup: its
\* receiver ends, websocket_vicidial cleans up and returns.
AgentWsCloseOnHangup ==
    /\ ws = "open"
    /\ hangup_sent
    /\ ws' = "peer_closed"
    /\ UNCHANGED <<hs, call_pc, a2ai_pc, ai2a_pc, pbx_left, pbx_sock, hangup_sent, forwarded,
                   bad_seen, callVars, segVars, dbVars, pacerVars>>

\* forward_ai_to_asterisk: ws.recv() raises ConnectionClosed.
AiPumpConnClosed ==
    /\ ai2a_pc = "recv"
    /\ ws = "peer_closed"
    /\ ai2a_pc' = "done"
    /\ UNCHANGED <<hs, call_pc, ws, a2ai_pc, pbx_left, pbx_sock, hangup_sent, forwarded,
                   bad_seen, callVars, segVars, dbVars, pacerVars>>

\* Both pumps have returned.
Gathered == a2ai_pc = "done" /\ ai2a_pc = "done"

\* handle_call after the gather: the async with closes the WebSocket and the
\* finally closes the PBX socket.
CallGathered ==
    /\ call_pc = "pumping"
    /\ Gathered
    /\ call_pc' = "closed"
    /\ ws' = "closed"
    /\ pbx_sock' = "closed"
    /\ UNCHANGED <<hs, a2ai_pc, ai2a_pc, pbx_left, hangup_sent, forwarded, bad_seen,
                   callVars, segVars, dbVars, pacerVars>>

InitRelayCall ==
    /\ InitBut /\ msgs_left = 0 /\ sentence_limit = MaxSentences /\ TtsLoaded /\ SideIdle /\ DbIdle /\ PacerIdle
    /\ seg_stream = <<>> /\ seg_pos = 0 /\ min_words = 1 /\ buffer = <<>>
    /\ word_count = 0 /\ is_final = FALSE /\ seg_emits = <<>>
    /\ hs \in [type : HandshakeTypes, len : HandshakeLens, nbytes : HandshakeSizes]
    /\ call_pc = "handshake"
    /\ ws = "none"
    /\ a2ai_pc = "off"
    /\ ai2a_pc = "off"
    /\ pbx_left = MaxPbxFrames
    /\ pbx_sock = "open"
    /\ hangup_sent = FALSE
    /\ forwarded = 0
    /\ bad_seen = FALSE

RelaySteps ==
    \/ \E connects \in BOOLEAN : CallHandshake(connects)
    \/ AiPumpConnClosed
    \/ CallGathered

NextRelayCall ==
    \/ RelaySteps
    \/ \E type \in {TYPE_HANGUP, TYPE_AUDIO_SLIN8K} \cup UnknownTypes : PbxFrame(type)
    \/ PbxEof
    \/ AgentHangupMsg
    \/ \E raises \in BOOLEAN : AgentAudio(raises)
    \/ AgentWsClose
    \/ AgentWsCloseOnHangup

RelayCallSpec == InitRelayCall /\ [][NextRelayCall]_vars

\* The relay's own steps are taken when they can be, and an agent that was told
\* of the hangup closes its WebSocket; what the peers do unprompted is up to them.
RelayCallFair ==
    /\ RelayCallSpec
    /\ WF_vars(RelaySteps)
    /\ WF_vars(AgentWsCloseOnHangup)

\* -------------------------- the calls of one relay and one agent process
\* The fields of PatientInfoExtraction (agent/state.py).
PatientFields ==
    {"customer_name", "ethnicity", "height", "weight", "immune_conditions",
     "neuro_conditions", "cancer_history", "last_visit_date", "can_make_decisions",
     "interested"}

\* The columns of Conversation (database.py).
ConversationColumns ==
    {"session_id", "phone_number", "started_at", "ended_at", "status", "patient_name",
     "medical_conditions", "last_visit_date", "interested", "conversation_json",
     "total_turns", "greeting", "first_user_response"}

\* The fields the policy extracts in the calls explored.
ExtractedFields == PatientFields \cap {"customer_name", "last_visit_date"}

\* How the session of a call ends: the hangup message, the WebSocket
\* disconnecting, or an error raised in the receiver by a malformed message.
EndCauses == {"hangup", "disconnect", "error"}

\* agent.end_call(session_id, "completed")
END_REASON == "completed"

\* session_id = f"call-{int(datetime.now().timestamp())}"
NewSessionId(c) == clock

\* MedicareAgent._get_buffer: get or create.
GetBuffer(bufs, sid) ==
    IF bufs[sid].present THEN bufs
    ELSE [bufs EXCEPT ![sid] = [present |-> TRUE, turns |-> 0, info |-> {}]]

\* A second of wall clock passes.
Tick ==
    /\ clock < MaxClock
    /\ clock' = clock + 1
    /\ UNCHANGED <<sess_pc, session_id, call_buffers, checkpoint, db, saved, end_cause,
                   flush_reason, callVars, segVars, pbxVars, pacerVars>>

\* handle_call names the session and connects; websocket_vicidial accepts and
\* stores the caller id in the buffer of that session id.
Accept(c) ==
    /\ sess_pc[c] = "idle"
    /\ LET sid == NewSessionId(c)
       IN  /\ session_id' = [session_id EXCEPT ![c] = sid]
           /\ call_buffers' = GetBuffer(call_buffers, sid)
    /\ sess_pc' = [sess_pc EXCEPT ![c] = "active"]
    /\ UNCHANGED <<clock, checkpoint, db, saved, end_cause, flush_reason, callVars,
                   segVars, pbxVars, pacerVars>>

\* process_message_streaming, a whole turn: the user turn (none for the
\* greeting) and the agent turn are appended to the buffer of the session id,
\* and the fields a tool call extracted are merged into the LangGraph state
\* and copied to the buffer.
ProcessMessage(c, user, fields) ==
    /\ sess_pc[c] = "active"
    /\ LET sid == session_id[c]
           bufs == GetBuffer(call_buffers, sid)
           n == bufs[sid].turns + (IF user THEN 2 ELSE 1)
           info == checkpoint[sid] \cup fields
       IN  /\ n <= MaxRecTurns
           /\ checkpoint' = [checkpoint EXCEPT ![sid] = info]
           /\ call_buffers' = [bufs EXCEPT ![sid].turns = n, ![sid].info = info]
    /\ UNCHANGED <<clock, sess_pc, session_id, db, saved, end_cause, flush_reason,
                   callVars, segVars, pbxVars, pacerVars>>

\* Conversation(session_id=..., **patient_data): the declarative constructor
\* raises TypeError for a keyword that is not an attribute of the class.
ConstructorAccepts(patient_data) == patient_data \subseteq ConversationColumns

\* end_call_and_save: the row of the session id after the call, and whether
\* a commit was made (an exception rolls back).
Saved(sid, buf, reason) ==
    LET record == [present |-> TRUE, status |-> reason, total_turns |-> buf.turns,
                   stored |-> buf.turns]
    IN  IF db[sid].present \/ ConstructorAccepts(buf.info)
        THEN [row |-> record, commit |-> TRUE]
        ELSE [row |-> db[sid], commit |-> FALSE]

\* The session of call c ends for the given cause: websocket_vicidial's finally
\* calls agent.end_call(session_id, "completed"), which saves and deletes the
\* buffer if there is one under that session id.
EndCall(c, cause) ==
    /\ sess_pc[c] = "active"
    /\ sess_pc' = [sess_pc EXCEPT ![c] = "ended"]
    /\ end_cause' = [end_cause EXCEPT ![c] = cause]
    /\ flush_reason' = [flush_reason EXCEPT ![c] = END_REASON]
    /\ LET sid == session_id[c]
           buf == [call_buffers[sid] EXCEPT
                     !.info = IF checkpoint[sid] # {} THEN checkpoint[sid] ELSE @]
           out == Saved(sid, buf, END_REASON)
       IN  IF call_buffers[sid].present
           THEN /\ db' = [db EXCEPT ![sid] = out.row]
                /\ saved' = [saved EXCEPT ![c] = IF out.commit THEN @ + 1 ELSE @]
                /\ call_buffers' = [call_buffers EXCEPT ![sid] = NoBuffer]
           ELSE UNCHANGED <<db, saved, call_buffers>>
    /\ UNCHANGED <<clock, session_id, checkpoint, callVars, segVars, pbxVars, pacerVars>>

InitCalls ==
    /\ InitBut /\ msgs_left = 0 /\ sentence_limit = MaxSentences /\ TtsLoaded /\ SideIdle
    /\ SegUnused /\ PbxIdle /\ DbIdle /\ PacerIdle

NextCalls ==
    \/ Tick
    \/ \E c \in Calls : Accept(c)
    \/ \E c \in Calls, user \in BOOLEAN, fields \in SUBSET ExtractedFields :
           ProcessMessage(c, user, fields)
    \/ \E c \in Calls, cause \in EndCauses : EndCall(c, cause)

CallsSpec == InitCalls /\ [][NextCalls]_vars

\* ------------------------ relay: the frames written by forward_ai_to_asterisk
MaxAudioBytes == 700   \* bytes of downsampled audio in one audio_response
MaxResponses == 2      \* audio_response messages the agent sends

ASTERISK_CHUNK_MS == 20

ASTERISK_SAMPLE_RATE == 8000

ASTERISK_SAMPLE_WIDTH == 2

\* int(ASTERISK_SAMPLE_RATE * (ASTERISK_CHUNK_MS / 1000) * ASTERISK_SAMPLE_WIDTH)
ASTERISK_CHUNK_BYTES ==
    (ASTERISK_SAMPLE_RATE * ASTERISK_CHUNK_MS * ASTERISK_SAMPLE_WIDTH) \div 1000

\* chunk_slin_8k = audio_slin_8k[i:i+ASTERISK_CHUNK_BYTES]: its length
SliceLen(len, i) == Min(ASTERISK_CHUNK_BYTES, len - i)

\* if len(chunk) < ASTERISK_CHUNK_BYTES: chunk += b'\x00' * (the difference)
Padded_Not(n) == n

Padded(n) == IF n < ASTERISK_CHUNK_BYTES THEN n + (ASTERISK_CHUNK_BYTES - n) ELSE n

\* write_audio_frame: struct.pack('B', TYPE_AUDIO_SLIN8K) +
\* struct.pack('>H', len(data)) + data; the length is two bytes, high first.
AudioFrame(n) ==
    [type |-> TYPE_AUDIO_SLIN8K, hi |-> (n \div 256) % 256, lo |-> n % 256, payload |-> n]

\* The length a reader decodes from the two bytes of the header.
LengthField(f) == f.hi * 256 + f.lo

\* await asyncio.sleep(0.02) after the frame at offset i.
SleepsAfter_NotLast(len, i) == i + ASTERISK_CHUNK_BYTES < len

SleepsAfter(len, i) == TRUE

\* The frame of the chunk at offset i is written and drained, `before` frames
\* having been written since the last sleep; then the pump sleeps (or, were
\* there no sleep, goes on to the next iteration at once).
WriteChunk(len, i, before) ==
    /\ last_frame' = AudioFrame(Padded(SliceLen(len, i)))
    /\ unslept' = before + 1
    /\ out_len' = len
    /\ out_off' = i
    /\ pace_pc' = IF SleepsAfter(len, i) THEN "sleep" ELSE "next"

\* msg = await ws.recv(): an audio_response whose downsampled audio has len
\* bytes; the loop over range(0, len, ASTERISK_CHUNK_BYTES) writes its first
\* frame, or does not run when there is no audio.
PacerRecv(len) ==
    /\ pace_pc = "recv"
    /\ pace_left > 0
    /\ pace_left' = pace_left - 1
    /\ IF len > 0
       THEN WriteChunk(len, 0, unslept)
       ELSE UNCHANGED <<pace_pc, out_len, out_off, last_frame, unslept>>
    /\ UNCHANGED <<callVars, segVars, pbxVars, dbVars>>

\* The next iteration, after the sleep has ended: the next chunk is written,
\* or the loop is over and the pump receives again.
PacerSlept ==
    /\ pace_pc \in {"sleep", "next"}
    /\ LET before == IF pace_pc = "sleep" THEN 0 ELSE unslept
           i == out_off + ASTERISK_CHUNK_BYTES
       IN  IF i < out_len
           THEN WriteChunk(out_len, i, before)
           ELSE /\ pace_pc' = "recv"
                /\ unslept' = before
                /\ UNCHANGED <<out_len, out_off, last_frame>>
    /\ UNCHANGED <<pace_left, callVars, segVars, pbxVars, dbVars>>

InitPacer ==
    /\ InitBut /\ msgs_left = 0 /\ sentence_limit = MaxSentences /\ TtsLoaded /\ SideIdle
    /\ SegUnused /\ PbxIdle /\ DbIdle
    /\ pace_pc = "recv"
    /\ out_len = 0
    /\ out_off = 0
    /\ pace_left = MaxResponses
    /\ last_frame = NoFrame
    /\ unslept = 0

NextPacer ==
    \/ \E len \in 0..MaxAudioBytes : PacerRecv(len)
    \/ PacerSlept

PacerSpec == InitPacer /\ [][NextPacer]_vars

\* ------------------------------------------------------------------ properties
\* A task of turn t has been created and has not finished.
Alive(t) == ~Terminated(prod_pc[t]) \/ ~Terminated(cons_pc[t])

\* Audio of turn t is still on its way to the caller: queued in the audio
\* queue, in flight to the relay, or being paced out to the PBX.
PendingAudio(t) ==
    \/ \E i \in 1..Len(audio_queue) : audio_queue[i].turn = t
    \/ \E i \in 1..Len(wire) : wire[i].type = "audio_response" /\ wire[i].turn = t
    \/ relay_pc = "pace" /\ relay_cur.turn = t /\ relay_cur.left > 0

\* C1: once the interruption signal has been raised during a turn, the
\* consumer of that turn publishes no further audio to the audio queue, and
\* once the interrupt message of that raise has been sent, the sender sends
\* no further audio_response of that turn.
C1_NoAudioAfterInterruption ==
    [][\A t \in Turns :
          /\ raised[t] => published'[t] = published[t]
          /\ intr_sent[t] => sent_audio'[t] = sent_audio[t]]_vars

\* C2 (its ordering part): while a raise of the signal has not been answered
\* by an interrupt message, no audio_response of a later turn is sent.
C2_InterruptBeforeLaterAudio ==
    [][\A t \in Turns :
          (unanswered # 0 /\ t > unanswered) => sent_audio'[t] = sent_audio[t]]_vars

\* C3: of the audio the agent had sent before an interrupt message, the relay
\* writes at most one more 20 ms frame to the PBX after that interrupt.
C3_RelayStopsOnInterrupt == stale_written <= 1

\* C4: while audio of the current turn is pending delivery to the caller, the
\* agent-is-speaking flag is set.
C4_FlagWhilePending ==
    (turn \in Turns /\ PendingAudio(turn)) => agent_is_speaking_event

\* C5: at most one turn is active at any time: the tasks of a turn are
\* created only when both tasks of every earlier turn have terminated.
C5_OneTurnActive ==
    \A t1, t2 \in Turns : (t1 # t2 /\ Alive(t1)) => ~Alive(t2)

C5_Witness == turn = 2 /\ Alive(2) /\ raised[1]

\* C6: the signal is raised only by a speech frame processed while the
\* agent-is-speaking flag is set.
C6_RaiseOnlyWhenSpeaking == last_raise.run > 0 => last_raise.armed

C6_Witness == last_raise.run > 0 /\ last_raise.armed /\ interruption_event

\* C7: the frame that raises the signal ends a run of at least
\* MIN_BARGEIN_SPEECH_CHUNKS consecutive speech frames, low-energy frames
\* counting as silence.
C7_RaiseAfterConsecutiveSpeech ==
    last_raise.run > 0 => last_raise.run >= MIN_BARGEIN_SPEECH_CHUNKS

\* C8: at a raise, at least MIN_BARGEIN_SPEECH_CHUNKS speech frames have been
\* counted in the current turn: frames counted in an earlier turn do not
\* contribute.
C8_NoCarryOver ==
    last_raise.run > 0 => last_raise.in_turn >= MIN_BARGEIN_SPEECH_CHUNKS

\* C9: an utterance that is transcribed or emitted has at least
\* ceil(MIN_SPEECH_DURATION_MS / 32) speech frames.
C9_MinSpeechFrames ==
    (r_pc = "stt" \/ last_final.emitted)
        => last_final.speech >= CeilDiv(MIN_SPEECH_DURATION_MS, MS_PER_VAD_CHUNK)

\* C10: an utterance is finalized only after at least
\* ceil(VAD_SILENCE_TIMEOUT_MS / 32) consecutive non-speech frames.
C10_SilenceBeforeFinalize ==
    last_final.silence > 0
        => last_final.silence >= CeilDiv(VAD_SILENCE_TIMEOUT_MS, MS_PER_VAD_CHUNK)

\* The characters of a string that are not white space.
NonWs(s) == SelectSeq(s, LAMBDA c : ~IsSpace(c))

\* The text of the first i sentences yielded, one after the other.
RECURSIVE EmittedText(_)
EmittedText(i) == IF i = 0 THEN <<>> ELSE EmittedText(i - 1) \o seg_emits[i].s

\* The word of the stream that holds the last character of the i-th sentence.
WordAtCut(i) ==
    LET k == Len(NonWs(EmittedText(i)))
        p == CHOOSE p \in 1..Len(seg_stream) :
                 /\ ~IsSpace(seg_stream[p])
                 /\ Cardinality({j \in 1..p : ~IsSpace(seg_stream[j])}) = k
        a == CHOOSE a \in 1..p :
                 /\ \A j \in a..p : ~IsSpace(seg_stream[j])
                 /\ a = 1 \/ IsSpace(seg_stream[a - 1])
        b == CHOOSE b \in p..Len(seg_stream) :
                 /\ \A j \in p..b : ~IsSpace(seg_stream[j])
                 /\ b = Len(seg_stream) \/ IsSpace(seg_stream[b + 1])
    IN  SubSeq(seg_stream, a, b)

LastWord(s) == Split(s)[Len(Split(s))]

\* C11: after finalize the buffer holds no text and the sentences yielded
\* hold, in order, every non-whitespace character of the tokens fed.
C11_FinalizeEmitsAll ==
    is_final => /\ NonWs(buffer) = <<>>
                /\ NonWs(EmittedText(Len(seg_emits))) = NonWs(SubSeq(seg_stream, 1, seg_pos))

\* C12: no sentence yielded ends in a known abbreviation, and no sentence is
\* cut at a period of a known abbreviation of the streamed text.
C12_NoAbbreviationCut ==
    \A i \in 1..Len(seg_emits) :
        /\ LastWord(seg_emits[i].s) \notin abbreviations
        /\ WordAtCut(i) \notin abbreviations

\* C13: every sentence add_token returns before finalize has at least
\* min_words words.
C13_MinWordsBeforeFinalize ==
    \A i \in 1..Len(seg_emits) :
        seg_emits[i].by = "add_token" => Len(Split(seg_emits[i].s)) >= min_words

C13_Witness ==
    /\ min_words = MaxMinWords
    /\ \E i \in 1..Len(seg_emits) :
          seg_emits[i].by = "add_token" /\ Len(Split(seg_emits[i].s)) = min_words
    /\ buffer # <<>>

\* C14: a producer that has ended has posted exactly one sentinel, and a
\* producer that has not ended has posted none: the sentinel is the last item
\* it posts, on every exit path.
C14_OneSentinelLast ==
    \A t \in Turns : prod_sentinels[t] = IF prod_pc[t] = "done" THEN 1 ELSE 0

C14_Witness ==
    /\ h_pc = "gather"
    /\ prod_pc[turn] = "done"
    /\ prod_sentinels[turn] = 1
    /\ \E t \in Turns : t < turn /\ prod_emitted[t] > 0 /\ prod_sentinels[t] = 1

\* C15: in a turn that is not interrupted the agent-is-speaking flag is
\* cleared only by the sender, when it has dequeued the end-of-turn sentinel
\* that the consumer published after the last chunk of the turn.
C15_FlagClearedOnSentinel ==
    [][(agent_is_speaking_event /\ ~agent_is_speaking_event'
            /\ turn \in Turns /\ ~raised[turn])
        => (s_pc = "got" /\ s_chunk = AudioNone)]_vars

\* The capacities the design gives the two channels of a turn.
SentenceChannelCapacity == 10

AudioChannelCapacity == 5

\* C16: the sentence channel never holds more than its capacity of items and
\* the audio channel never more than its capacity: a consumer that finds the
\* audio channel full blocks instead of enqueuing.
C16_ChannelsBounded ==
    /\ Len(audio_queue) <= AudioChannelCapacity
    /\ \A t \in Turns : Len(sentence_queue[t]) <= SentenceChannelCapacity

StrictlyIncreasing(q) == \A i, j \in 1..Len(q) : i < j => q[i] < q[j]

\* C17: the consumer of a turn dequeues the sentences in the order the
\* producer emitted them (1, 2, ...), and the audio_response messages of a
\* turn are sent in the order of their sentences, none twice.
C17_InOrder ==
    \A t \in Turns :
        /\ \A i \in 1..Len(taken_order[t]) : taken_order[t][i] = i
        /\ StrictlyIncreasing(sent_order[t])
        /\ \A i \in 1..Len(sent_order[t]) :
              \E j \in 1..Len(taken_order[t]) : taken_order[t][j] = sent_order[t][i]

C17_Witness ==
    /\ Len(sent_order[1]) >= 3
    /\ Len(audio_queue) >= 2
    /\ sentence_queue[1] # <<>>

\* C18: the agent WebSocket is opened only if the first frame from the PBX has
\* exactly 19 bytes, type 0x01 and a length field of 16.
C18_ConnectOnlyOnUuidFrame ==
    ws # "none" =>
        /\ hs.nbytes = UUID_FRAME_BYTES
        /\ hs.type = TYPE_UUID
        /\ hs.len = UUID_LENGTH

\* C19: once a frame of a type other than 0x00 and 0x10 has been read after the
\* handshake, the PBX-to-agent pump has ended and forwards nothing further.
C19_UnknownFrameEndsPump == bad_seen => a2ai_pc = "done"

\* C20: when either pump has terminated, the relay eventually closes both
\* sockets, whatever the peer of the other pump does.
C20_PumpEndClosesCall ==
    (a2ai_pc = "done" \/ ai2a_pc = "done") ~> (call_pc = "closed" /\ pbx_sock = "closed")

\* C21: once one of the receiver, the handler and the sender has completed,
\* the other two are cancelled: until the flush the handler starts no further
\* turn, and every unfinished sender and receiver has a cancellation pending;
\* end_call is made exactly once, after all three have completed.
C21_CancelledThenFlushed ==
    [][/\ main_pc # "wait" => turn' = turn
       /\ main_pc = "gather" => /\ s_pc # "done" => s_cancel
                                /\ r_pc # "done" => r_cancel
       /\ end_calls' = IF main_pc' = "ended" THEN 1 ELSE 0
       /\ main_pc' = "ended" => s_pc' = "done" /\ h_pc' = "done" /\ r_pc' = "done"]_vars

\* C22: once the flush to persistence has begun, no producer and no consumer
\* of the session is still running.
C22_NoTaskAfterFlush ==
    main_pc = "ended" =>
        \A t \in Turns : Terminated(prod_pc[t]) /\ Terminated(cons_pc[t])

\* C23: every call that was accepted and has ended left exactly one
\* persistence record, written by its own teardown, whose total_turns is the
\* number of entries of the stored turn list.
C23_OneRecordPerCall ==
    \A c \in Calls :
        sess_pc[c] = "ended" =>
            /\ saved[c] = 1
            /\ db[session_id[c]].present
            /\ db[session_id[c]].total_turns = db[session_id[c]].stored

\* The status the record should carry for each cause of the end.
StatusFor(cause) ==
    CASE cause = "hangup" -> "completed"
      [] cause = "disconnect" -> "disconnected"
      [] cause = "error" -> "error"
      [] OTHER -> "none"

\* C24: the status a session is flushed with tells why it ended: disconnected
\* for a transport error, error for a protocol error, completed for a hangup.
C24_StatusTellsCause ==
    \A c \in Calls : sess_pc[c] = "ended" => flush_reason[c] = StatusFor(end_cause[c])

\* C25: two accepted calls never have the same session id.
C25_DistinctSessionIds ==
    \A c1, c2 \in Calls :
        (c1 # c2 /\ sess_pc[c1] # "idle" /\ sess_pc[c2] # "idle")
            => session_id[c1] # session_id[c2]

\* C26: the pump never has more than one frame written since its last sleep
\* ended, and it is back at ws.recv() only after the sleep that follows the
\* last frame of an audio_response.
C26_OneFramePerSleep == unslept <= 1 /\ (pace_pc = "recv" => unslept = 0)

C26_Witness ==
    /\ pace_pc = "sleep" /\ unslept = 1 /\ pace_left = 0
    /\ out_off + ASTERISK_CHUNK_BYTES >= out_len

\* C27: every frame written to the PBX has type 0x10, a length field of 320
\* and a payload of 320 bytes.
C27_WholeFrames ==
    last_frame # NoFrame =>
        /\ last_frame.type = TYPE_AUDIO_SLIN8K
        /\ LengthField(last_frame) = ASTERISK_CHUNK_BYTES
        /\ last_frame.payload = ASTERISK_CHUNK_BYTES

C27_Witness ==
    /\ last_frame # NoFrame
    /\ out_off > 0
    /\ SliceLen(out_len, out_off) < ASTERISK_CHUNK_BYTES

\* Caller transcripts waiting on the transcript queue.
Utts(q) == Len(SelectSeq(q, LAMBDA x : x = "utt"))

\* C28: a transcript leaves the transcript queue only by the handler
\* dequeuing it and starting a turn for it, and every transcript enqueued is
\* eventually dequeued so.
C28_TranscriptGetsTurn ==
    /\ [][Utts(transcript_queue') < Utts(transcript_queue)
            => /\ turn' = turn + 1
               /\ prod_pc'[turn'] = "run"
               /\ cons_pc'[turn'] = "top"]_vars
    /\ (Utts(transcript_queue) > 0) ~> (Utts(transcript_queue) = 0)

C28_Witness ==
    /\ turn = 2 /\ raised[1] /\ last_final.emitted
    /\ Utts(transcript_queue) = 0 /\ prod_pc[2] # "none"

\* C29: within one turn the interruption signal goes from clear to set at
\* most once.
C29_OneRaisePerTurn == \A t \in Turns : raise_count[t] <= 1

\* The signal was raised and answered in the turn still current, and a speech
\* frame has been processed since the sender cleared the speaking flag.
C29_Witness ==
    /\ turn = 1 /\ raise_count[1] = 1 /\ intr_sent[1]
    /\ ~interruption_event
    /\ speech_run >= 1 /\ consecutive_speech_during_agent = 0

\* C30: the step that starts a turn leaves the signal clear, and the signal
\* is raised only from clear to set.
C30_ClearAtTurnStart ==
    [][/\ turn' # turn => ~interruption_event'
       /\ raise_count' # raise_count => ~interruption_event /\ interruption_event']_vars

C30_Witness == \E t \in Turns : set_at_start[t] /\ prod_pc[t] # "none"

\* ---------------------------------------------------------------- claim C31
\* C31: once the handler has finished its interrupted branch for a turn (it
\* is back at the dequeue of the next transcript, has gone on to a later
\* turn, or has ended), the producer and the consumer of that turn have
\* terminated and the audio queue holds no chunk of that turn.
ChunksOf(t) == {i \in 1..Len(audio_queue) :
                    audio_queue[i] # AudioNone /\ audio_queue[i].turn = t}

C32_SenderOutlivesTurns ==
    /\ \A i \in 1..Len(audio_queue) : audio_queue[i] # AudioNone
    /\ s_pc = "done" => main_pc # "wait"

\* After an interrupted turn the sender has sent audio of the next turn.
C32_Witness ==
    \E t \in Turns : /\ interrupted[t]
                      /\ t + 1 \in Turns
                      /\ sent_audio[t + 1] > 0
                      /\ s_pc # "done"

\* ---------------------------------------------------------------- claim C40
\* C40: whenever the handler waits for the next transcript or has ended, the
\* speaking flag is clear, and the only step that sets the flag is the
\* handler's start of a turn.
HandlerIdle == h_pc \in {"get", "done"}

C40_FlagOnlyInTurn ==
    /\ [](HandlerIdle => ~agent_is_speaking_event)
    /\ [][(~agent_is_speaking_event /\ agent_is_speaking_event')
              => (h_pc = "get" /\ h_pc' = "wait" /\ turn' = turn + 1)]_vars

\* The handler is idle again after a turn that ran to its end and whose
\* audio was sent.
C40_Witness ==
    /\ h_pc = "get"
    /\ turn \in Turns
    /\ ~interrupted[turn]
    /\ sent_audio[turn] > 0
    /\ ~agent_is_speaking_event

\* ---------------------------------------------------------------- claim C34
\* C34: when the STT engine fails on a finalized utterance, the step in which
\* the transcription returns enqueues no transcript, sends no transcript
\* message, starts no turn, and leaves the receiver running and the session
\* waiting on its tasks.
C34_SttFailureAbsorbed ==
    [][RecvSttDone("error")
          => /\ transcript_queue' = transcript_queue
             /\ wire' = wire
             /\ turn' = turn
             /\ r_pc' # "done"
             /\ main_pc' = main_pc]_vars

\* The transcription of a long enough utterance has failed and the receiver
\* is reading messages again.
C34_Witness ==
    /\ last_final.failed
    /\ last_final.speech >= MIN_SPEECH_CHUNKS
    /\ r_pc = "recv"
    /\ main_pc = "wait"

\* ---------------------------------------------------------------- claim C35
\* The server as load_models leaves it: the Kokoro pipeline was loaded, or
\* its construction failed and tts_model was set to None.
TtsModels == {"loaded", None}

InitTts ==
    /\ InitBut /\ msgs_left = MaxMsgsRelay /\ sentence_limit = MaxSentences
    /\ tts_model \in TtsModels
    /\ SideIdle
    /\ SegIdle

TtsSpec == InitTts /\ [][Next]_vars

\* C35: a consumer that has ended in a turn with no interruption has taken
\* every sentence the producer enqueued and has published one chunk (audio,
\* or silence when the synthesis failed) for each of them.
C35_FailureYieldsSilence ==
    \A t \in Turns :
        (cons_pc[t] = "done" /\ ~raised[t] /\ ~interrupted[t])
            => /\ Len(taken_order[t]) = prod_emitted[t]
               /\ published[t] = Len(taken_order[t])

\* ---------------------------------------------------------------- claim C37
\* str.islower() of one character
LowerChars ==
    {"a", "b", "c", "d", "e", "f", "g", "h", "i", "j", "k", "l", "m", "n", "o", "p",
     "q", "r", "s", "t", "u", "v", "w", "x", "y", "z"}

\* The candidate add_token evaluates for terminator term in buffer buf is not
\* rejected as an abbreviation or as a number.
PlainCandidate(buf, term) ==
    LET c == Candidate(buf, term)
        words == Split(c.sentence)
    IN  /\ ~(words # <<>> /\ words[Len(words)] \in abbreviations)
        /\ ~EndsInNumber(c.sentence)

\* The character right after the last occurrence of term is a lower-case
\* letter.
LowerFollows(buf, term) ==
    LET last_term_idx == RFind(buf, term)
    IN  last_term_idx < Len(buf) /\ buf[last_term_idx + 1] \in LowerChars

\* C37: for every candidate boundary of the buffer that is neither an
\* abbreviation nor a number, the segmenter rejects the boundary exactly when
\* the character immediately after the terminator is a lower-case letter.
C37_RejectsOnlyLowercase ==
    \A k \in 1..Len(sentence_terminators) :
        LET term == sentence_terminators[k]
        IN  (Contains(buffer, term) /\ PlainCandidate(buffer, term))
                => LET c == Candidate(buffer, term)
                   IN  ~is_valid_sentence_boundary(c.sentence, c.after)
                           <=> LowerFollows(buffer, term)

\* --------------------------- relay: forward_asterisk_to_ai, byte by byte
MaxWireFrames == 2     \* frames the PBX sends after the UUID frame
MaxPayload == 4        \* payload bytes of one frame

\* The values a byte of signed linear audio takes in the streams explored:
\* silence, and a value that is also a frame type.
PayloadBytes == {0, TYPE_AUDIO_SLIN8K}

\* The payloads of audio frames: whole 16-bit samples.
AudioPayloads ==
    UNION {[1..n -> PayloadBytes] :
               n \in {m \in 1..MaxPayload : m % ASTERISK_SAMPLE_WIDTH = 0}}

\* The frames a PBX sends: audio, hangup (no payload), and frames of a type
\* the relay does not know, with an empty or a one-byte payload.
WireFrames ==
    {[type |-> TYPE_AUDIO_SLIN8K, payload |-> p] : p \in AudioPayloads}
        \cup {[type |-> TYPE_HANGUP, payload |-> <<>>]}
        \cup {[type |-> t, payload |-> p] : t \in UnknownTypes, p \in {<<>>, <<0>>}}

\* A frame on the wire: type, 16-bit big-endian length, payload.
Encode(f) == <<f.type, Len(f.payload) \div 256, Len(f.payload) % 256>> \o f.payload

RECURSIVE EncodeAll(_)
EncodeAll(fs) == IF fs = <<>> THEN <<>> ELSE Encode(Head(fs)) \o EncodeAll(Tail(fs))

\* frame_type, length = header[0], struct.unpack('>H', header[1:3])[0]
HeaderType(header) == header[1]

HeaderLength(header) == header[2] * 256 + header[3]

\* How many bytes await reader.read(n) returns: none for n = 0 and at end of
\* stream; else at least one and at most n of the bytes that have arrived.
ReadSizes(n) ==
    IF n = 0 \/ pbx_bytes = <<>> THEN {0} ELSE 1..Min(n, Len(pbx_bytes))

\* AudioResampler.resample, 8 kHz to 16 kHz: audioop.ratecv raises for a
\* chunk that is not a whole number of samples; else every sample comes out
\* twice (the interpolation of the values is not modelled).
resample(chunk) ==
    IF Len(chunk) % ASTERISK_SAMPLE_WIDTH # 0
    THEN [raised |-> TRUE, out |-> <<>>]
    ELSE [raised |-> FALSE,
          out |-> [i \in 1..(2 * Len(chunk)) |->
                      chunk[ASTERISK_SAMPLE_WIDTH
                                * ((i - 1) \div (2 * ASTERISK_SAMPLE_WIDTH))
                            + ((i - 1) % ASTERISK_SAMPLE_WIDTH) + 1]]]

\* json.dumps({"type": "audio_data", "audio": ..., "format": "pcm16k"})
AudioDataMsg(audio_slin_16k) == [type |-> "audio_data", audio |-> audio_slin_16k]

\* json.dumps({"type": "hangup"})
HangupMsg == [type |-> "hangup", audio |-> <<>>]

\* header = await reader.read(3) returns k bytes.
PumpHeader(k) ==
    /\ pump_pc = "header"
    /\ k \in ReadSizes(3)
    /\ LET header == SubSeq(pbx_bytes, 1, k)
       IN  /\ pbx_bytes' = SubSeq(pbx_bytes, k + 1, Len(pbx_bytes))
           /\ read_pos' = read_pos + k
           /\ IF Len(header) < 3
              THEN /\ pump_pc' = "done"
                   /\ UNCHANGED <<length, ws_sent>>
              ELSE IF HeaderType(header) = TYPE_HANGUP
              THEN /\ ws_sent' = Append(ws_sent, HangupMsg)
                   /\ pump_pc' = "done"
                   /\ length' = HeaderLength(header)
              ELSE /\ pump_pc' = IF HeaderType(header) # TYPE_AUDIO_SLIN8K
                                 THEN "discard" ELSE "audio"
                   /\ length' = HeaderLength(header)
                   /\ UNCHANGED ws_sent
    /\ UNCHANGED <<pbx_stream, convVars, callCore, segVars, pbxVars, dbVars, pacerVars>>

\* await reader.read(length) returns k bytes: the payload of a frame of
\* unknown type is discarded; audio is resampled and sent (no audio ends the
\* pump; an exception ends it through except Exception).
PumpPayload(k) ==
    /\ pump_pc \in {"audio", "discard"}
    /\ k \in ReadSizes(length)
    /\ LET audio_slin_8k == SubSeq(pbx_bytes, 1, k)
           audio_slin_16k == resample(audio_slin_8k)
       IN  /\ pbx_bytes' = SubSeq(pbx_bytes, k + 1, Len(pbx_bytes))
           /\ read_pos' = read_pos + k
           /\ IF pump_pc = "discard"
              THEN pump_pc' = "header" /\ UNCHANGED ws_sent
              ELSE IF audio_slin_8k = <<>> \/ audio_slin_16k.raised
              THEN pump_pc' = "done" /\ UNCHANGED ws_sent
              ELSE /\ ws_sent' = Append(ws_sent, AudioDataMsg(audio_slin_16k.out))
                   /\ pump_pc' = "header"
    /\ UNCHANGED <<pbx_stream, length, convVars, callCore, segVars, pbxVars, dbVars,
                   pacerVars>>

PbxStreams == UNION {[1..n -> WireFrames] : n \in 0..MaxWireFrames}

\* The pump starts on a connection over which the PBX sends the stream.
InitPump ==
    /\ InitBut /\ msgs_left = 0 /\ sentence_limit = MaxSentences /\ TtsLoaded
    /\ SegIdle /\ ConvIdle
    /\ pbx_stream \in PbxStreams
    /\ pbx_bytes = EncodeAll(pbx_stream)
    /\ pump_pc = "header"
    /\ length = 0
    /\ read_pos = 0
    /\ ws_sent = <<>>

NextPump == \E k \in 0..(MaxPayload + 3) : PumpHeader(k) \/ PumpPayload(k)

PumpSpec == InitPump /\ [][NextPump]_vars

\* ---------------------------------------------------------------- claim C33
\* The messages the frames of a stream call for: one audio_data message per
\* audio frame, in order, none for a frame of unknown type, and a hangup
\* message for a hangup frame, with nothing after it.
RECURSIVE MessagesFor(_)
MessagesFor(fs) ==
    IF fs = <<>> THEN <<>>
    ELSE IF Head(fs).type = TYPE_HANGUP THEN <<HangupMsg>>
    ELSE IF Head(fs).type = TYPE_AUDIO_SLIN8K
    THEN <<AudioDataMsg(resample(Head(fs).payload).out)>> \o MessagesFor(Tail(fs))
    ELSE MessagesFor(Tail(fs))

IsPrefix(p, q) == Len(p) <= Len(q) /\ SubSeq(q, 1, Len(p)) = p

\* C33: what the pump has sent to the agent is always the beginning of the
\* messages the PBX's frames call for, and all of them once the pump has
\* ended: one audio_data per audio frame, in arrival order, and the hangup
\* message last.
C33_OneMessagePerFrame ==
    /\ IsPrefix(ws_sent, MessagesFor(pbx_stream))
    /\ pump_pc = "done" => ws_sent = MessagesFor(pbx_stream)

\* ---------------------------------------------------------------- claim C38
\* The offsets of the stream at which a frame starts or the stream ends.
FrameStarts(fs) == {Len(EncodeAll(SubSeq(fs, 1, j))) : j \in 0..Len(fs)}

\* C38: whenever the pump is about to read a header, or has ended, the bytes
\* it has read so far are whole frames; and a payload read is for the length
\* of the frame whose header was read.
C38_ParsesOnFrameBoundaries ==
    /\ pump_pc \in {"header", "done"} => read_pos \in FrameStarts(pbx_stream)
    /\ pump_pc \in {"audio", "discard"}
           => \E j \in 1..Len(pbx_stream) :
                  /\ read_pos = Len(EncodeAll(SubSeq(pbx_stream, 1, j - 1))) + 3
                  /\ length = Len(pbx_stream[j].payload)

\* ------------------- MedicareAgent.process_message_streaming, step by step
MaxConvTurns == 3      \* calls of process_message_streaming in one session

\* tools = [update_patient_info, end_call, forward_call_to_human]
Tools == {"update_patient_info", "end_call", "forward_call_to_human"}

\* self.app.config of the graph create_agent_graph compiles: compile is given
\* a checkpointer and no config.
CompiledGraphConfig == None

\* self.app.config["edges"]["tool_node"]: subscripting None raises TypeError.
EdgesLookupRaises == CompiledGraphConfig = None

\* input_data["messages"]: the HumanMessage of the transcript, nothing for
\* the greeting.
InputMessages(u) == IF u = 0 THEN <<>> ELSE <<[role |-> "human", id |-> u]>>

\* The producer's first step into the generator: the user turn is appended
\* to the buffer, the state of the thread is read, and the streaming node is
\* given the messages of the state followed by the new message.  The first
\* call of a session is the greeting, with the empty transcript.
ConvStart ==
    /\ pms_pc = "idle"
    /\ conv_turn < MaxConvTurns
    /\ LET u == conv_turn
       IN  /\ user_message' = u
           /\ buffer_turns' = IF u # 0
                              THEN Append(buffer_turns, [role |-> "user", id |-> u])
                              ELSE buffer_turns
           /\ full_state' = graph_messages \o InputMessages(u)
    /\ conv_turn' = conv_turn + 1
    /\ buffer_patient_info' = graph_patient_info
    /\ final_tool' = "none"
    /\ turn_log' = <<>>
    /\ pms_pc' = "stream"
    /\ UNCHANGED <<graph_messages, graph_patient_info>>
    /\ UNCHANGED <<pumpVars, callCore, segVars, pbxVars, dbVars, pacerVars>>

\* The streaming node yields a sentence; the producer puts it on the
\* sentence queue.
ConvSentence ==
    /\ pms_pc = "stream"
    /\ Len(turn_log) < MaxSentences
    /\ turn_log' = Append(turn_log, "sentence")
    /\ UNCHANGED <<pms_pc, conv_turn, user_message, buffer_turns, buffer_patient_info,
                   graph_messages, graph_patient_info, full_state, final_tool>>
    /\ UNCHANGED <<pumpVars, callCore, segVars, pbxVars, dbVars, pacerVars>>

\* The producer leaves the loop before the final chunk (the signal is set
\* when a chunk arrives, or the task is cancelled): the generator is not
\* resumed, and the finally block posts the sentinel.
ConvInterrupted ==
    /\ pms_pc = "stream"
    /\ turn_log' = Append(turn_log, "sentinel")
    /\ pms_pc' = "idle"
    /\ UNCHANGED <<conv_turn, user_message, buffer_turns, buffer_patient_info,
                   graph_messages, graph_patient_info, full_state, final_tool>>
    /\ UNCHANGED <<pumpVars, callCore, segVars, pbxVars, dbVars, pacerVars>>

\* The streaming node yields its final chunk, a message that calls the given
\* tool ("none": no tool call): the agent turn is appended, the state gets
\* the input and the final message; a tool call runs tool_node, whose result
\* goes to the buffer and to the state; then the edge lookup, then the
\* follow-up of update_patient_info, then the final chunk.  An exception
\* leaves the generator and the producer's finally block posts the sentinel.
ConvFinal(tool, fields) ==
    /\ pms_pc = "stream"
    /\ LET spoke == \E i \in 1..Len(turn_log) : turn_log[i] = "sentence"
           ai == [role |-> "ai", id |-> user_message]
           agent == [role |-> "agent", id |-> user_message]
           turns1 == IF spoke THEN Append(buffer_turns, agent) ELSE buffer_turns
           msgs1 == graph_messages \o InputMessages(user_message) \o <<ai>>
           msgs2 == Append(msgs1, [role |-> "tool", id |-> user_message])
           info == IF tool = "update_patient_info"
                   THEN graph_patient_info \cup fields ELSE graph_patient_info
       IN  IF tool = "none"
           THEN /\ buffer_turns' = turns1
                /\ graph_messages' = msgs1
                /\ turn_log' = Append(turn_log, "sentinel")
                /\ UNCHANGED <<buffer_patient_info, graph_patient_info>>
           ELSE /\ buffer_patient_info' = info
                /\ graph_patient_info' = info
                /\ IF ~EdgesLookupRaises /\ tool = "update_patient_info"
                   THEN /\ graph_messages' = Append(msgs2, ai)
                        /\ buffer_turns' = Append(turns1, agent)
                        /\ turn_log' = turn_log \o <<"commit", "follow_up", "sentinel">>
                   ELSE /\ graph_messages' = msgs2
                        /\ buffer_turns' = turns1
                        /\ turn_log' = turn_log \o <<"commit", "sentinel">>
    /\ final_tool' = tool
    /\ pms_pc' = "idle"
    /\ UNCHANGED <<conv_turn, user_message, full_state>>
    /\ UNCHANGED <<pumpVars, callCore, segVars, pbxVars, dbVars, pacerVars>>

InitConv ==
    /\ InitBut /\ msgs_left = 0 /\ sentence_limit = MaxSentences /\ TtsLoaded
    /\ SegIdle /\ PumpIdle /\ ConvIdle

NextConv ==
    \/ ConvStart
    \/ ConvSentence
    \/ ConvInterrupted
    \/ \E tool \in Tools \cup {"none"}, fields \in SUBSET ExtractedFields :
           ConvFinal(tool, fields)

ConvSpec == InitConv /\ [][NextConv]_vars

\* ---------------------------------------------------------------- claim C36
\* C36: a call whose final message called update_patient_info has committed
\* the tool's result, then enqueued the follow-up utterance, then posted the
\* sentinel; a call whose final message called end_call or
\* forward_call_to_human has enqueued no follow-up and has posted the
\* sentinel last.
C36_FollowUpAfterUpdate ==
    pms_pc = "idle"
        => /\ final_tool = "update_patient_info"
                => /\ Len(turn_log) >= 3
                   /\ SubSeq(turn_log, Len(turn_log) - 2, Len(turn_log))
                          = <<"commit", "follow_up", "sentinel">>
           /\ final_tool \in {"end_call", "forward_call_to_human"}
                => /\ \A i \in 1..Len(turn_log) : turn_log[i] # "follow_up"
                   /\ turn_log[Len(turn_log)] = "sentinel"

\* ---------------------------------------------------------------- claim C39
\* C39: while a call streams, every user transcript recorded in the turns of
\* the session is among the messages passed to the policy.
C39_HistoryHasEveryTranscript ==
    pms_pc = "stream"
        => \A i \in 1..Len(buffer_turns) :
               buffer_turns[i].role = "user"
                   => \E j \in 1..Len(full_state) :
                          full_state[j] = [role |-> "human", id |-> buffer_turns[i].id]

====
